---- MODULE Spec2Model ----
(***************************************************************************)
(* WWPTools: the keyplan script (KeyPlan-script.py), the marketing script  *)
(* (MultipleUnits-script.py) and the parameter copy utility                *)
(* (changeparameter-script.py), as state machines over a host document.    *)
(*                                                                         *)
(* Abbreviations in comments: KP = KeyPlan-script.py,                      *)
(* MU = MultipleUnits-script.py, CP = changeparameter-script.py.           *)
(***************************************************************************)
EXTENDS Integers, Sequences, FiniteSets, TLC

VARIABLES
    script,     \* the script that runs: "keyplan", "marketing" or "copy"
    pc,         \* where main() stands
    library,    \* what main() collects from the document before the dialog:
                \* [isPlan, templates, fillTypes, titleblocks], the lists sorted,
                \* and how the host lets a view be rotated
    views,      \* the document's plan views: set of [Id, Name, ...]
    sheets,     \* the document's sheets: set of [Id, SheetNumber, Name, ...]
    nextId,     \* the element id the host gives to the next new element
    config,     \* the persisted per-script config object
    state,      \* main()'s `state` dict
    form,       \* the controls of the dialog that is open (or was open last)
    dialogResult, \* what form.ShowDialog() returned last
    sel,        \* main()'s locals after a confirmed dialog
    pos,        \* index of the area the creation loop is at
    cur,        \* the locals of the current loop iteration
    results,    \* main()'s `results` list
    txn,        \* the transaction: "none", "open", "committed", "rolled back"
    alert,      \* the alert shown last
    hist,       \* history of the run: whether the dialog was shown, how the last
                \* pick ended, the numbers of control changes, picks, config saves
                \* and transactions started, the document when the transaction
                \* started, the number of the run and what the run before it used
    boundary,   \* the boundary loops of the area a geometry helper is called on
    call,       \* the helper function called last and its arguments
    ret,        \* what that call returned
    elements,   \* the parameters of the elements the copy utility works on
    copy        \* the copy utility's locals

docVars == <<views, sheets, nextId, elements>>

runVars == <<script, pc, library, nextId, config, state, form, dialogResult, sel, pos, cur,
             results, txn, alert, hist, copy>>

vars == <<script, pc, library, views, sheets, nextId, config, state, form, dialogResult,
          sel, pos, cur, results, txn, alert, hist, boundary, call, ret, elements, copy>>

IsViewScript == script \in {"keyplan", "marketing"}

None == "None"

NoId == 0

(***************************************************************************)
(* The elements of the document the scripts only read.                     *)
(***************************************************************************)

\* the active view, a plan view named "Level 1" when library.isPlan
BaseViewId == 50

BaseViewName == "Level 1"

\* view templates, filled region types and titleblock types by element id
TypeName ==
    (11 :> "Presentation") @@ (12 :> "Working") @@ (21 :> "Diagonal") @@ (22 :> "Solid")
        @@ (31 :> "A1") @@ (32 :> "A3")

\* The doors of the document by element id: the instance name, the type name
\* and the family name as texts (sequences of characters), the location point
\* (<<>>: the door has none) and FacingOrientation.
DoorTable ==
    (40 :> [Name |-> <<"D", "o", "o", "r">>, TypeName |-> <<"S", "t", "d">>,
            FamilyName |-> <<"S", "o", "l", "o">>, loc |-> <<2, 1>>, facing |-> <<1, 0, 0>>])
    @@ (41 :> [Name |-> <<"E", "n", "t", "r", "y">>, TypeName |-> <<"S", "t", "d">>,
            FamilyName |-> <<"S", "o", "l", "o">>, loc |-> <<2, 1>>, facing |-> <<1, 0, 0>>])
    @@ (42 :> [Name |-> <<>>, TypeName |-> <<"E", "N", "T", "R", "Y", " ", "3", "6">>,
            FamilyName |-> <<"S", "o", "l", "o">>, loc |-> <<1, 2>>, facing |-> <<0, 1, 0>>])
    @@ (43 :> [Name |-> <<>>, TypeName |-> <<"S", "t", "d">>,
            FamilyName |-> <<"r", "e", "E", "n", "t", "r", "y">>,
            loc |-> <<1, 0>>, facing |-> <<0, 0, 0>>])
    @@ (44 :> [Name |-> <<"E", "n", "t">>, TypeName |-> <<"r", "y">>,
            FamilyName |-> <<"S", "o", "l", "o">>, loc |-> <<2, 1>>, facing |-> <<0, -1, 0>>])
    @@ (45 :> [Name |-> <<"e", "n", "t", "r", "y">>, TypeName |-> <<"S", "t", "d">>,
            FamilyName |-> <<"S", "o", "l", "o">>, loc |-> <<2, 1>>, facing |-> <<0, 0, 1>>])
    @@ (46 :> [Name |-> <<"E", "n", "t", "r", "y">>, TypeName |-> <<"S", "t", "d">>,
            FamilyName |-> <<"S", "o", "l", "o">>, loc |-> <<>>, facing |-> <<-1, 0, 0>>])

\* doors by element id: the XY part of FacingOrientation
DoorFacing == [d \in DOMAIN DoorTable |-> <<DoorTable[d].facing[1], DoorTable[d].facing[2]>>]

DoorIds == DOMAIN DoorFacing

\* the doors visible in the active view, as the collector lists them
BaseViewDoors == <<41, 42, 43>>

(***************************************************************************)
(* Names and sheet numbers                                                 *)
(***************************************************************************)

\* "{} ({})".format(base_name, index)
ViewCandidate(base_name, index) == base_name \o " (" \o ToString(index) \o ")"

\* "{}-copy{}".format(base_number, "" if index == 1 else str(index))
SheetCandidate(base_number, index) ==
    base_number \o "-copy" \o (IF index = 1 THEN "" ELSE ToString(index))

\* set(v.Name for v in FilteredElementCollector(doc).OfClass(DB.View)):
\* sheets are views of the host too.
ExistingViewNames ==
    {v.Name : v \in views} \cup {s.Name : s \in sheets}
        \cup {TypeName[library.templates[i]] : i \in DOMAIN library.templates}

\* set(s.SheetNumber for s in ... OfClass(DB.ViewSheet) if s.SheetNumber)
ExistingSheetNumbers == {s.SheetNumber : s \in {t \in sheets : t.SheetNumber # ""}}

\* a loop that returns its first candidate unchecked
ViewNameLoop_NoCheck(base_name, existing, index) == ViewCandidate(base_name, index)

\* the `while True` loop of unique_view_name, entered with index
RECURSIVE ViewNameLoop(_, _, _)
ViewNameLoop(base_name, existing, index) ==
    IF ViewCandidate(base_name, index) \notin existing
    THEN ViewCandidate(base_name, index)
    ELSE ViewNameLoop(base_name, existing, index + 1)

\* the `while True` loop of unique_sheet_number, entered with index
RECURSIVE SheetNumberLoop(_, _, _)
SheetNumberLoop(base_number, existing, index) ==
    IF SheetCandidate(base_number, index) \notin existing
    THEN SheetCandidate(base_number, index)
    ELSE SheetNumberLoop(base_number, existing, index + 1)

\* unique_view_name without the lookup of the existing names
unique_view_name_NoCheck(base_name) == base_name

unique_view_name(base_name) ==
    IF base_name \notin ExistingViewNames
    THEN base_name
    ELSE ViewNameLoop(base_name, ExistingViewNames, 1)

\* unique_sheet_number without the lookup of the existing numbers
unique_sheet_number_NoCheck(base_number) == base_number

unique_sheet_number(base_number) ==
    IF base_number = ""
    THEN ""
    ELSE IF base_number \notin ExistingSheetNumbers
         THEN base_number
         ELSE SheetNumberLoop(base_number, ExistingSheetNumbers, 1)

(***************************************************************************)
(* Geometry helpers.  A point is <<x, y>> with integer coordinates, so two *)
(* points are farther apart than the 1e-6 tolerance exactly when they      *)
(* differ.  A curve is the sequence of points Tessellate() returns for it  *)
(* (its two end points for a line).  A loop is a sequence of curves.       *)
(***************************************************************************)

Abs(x) == IF x < 0 THEN -x ELSE x

\* for pt in curve.Tessellate(): if not pts or pt.DistanceTo(pts[-1]) > 1e-6
RECURSIVE AppendTessellated(_, _)
AppendTessellated(pts, tess) ==
    IF tess = <<>>
    THEN pts
    ELSE AppendTessellated(
             IF pts = <<>> \/ Head(tess) # pts[Len(pts)] THEN Append(pts, Head(tess)) ELSE pts,
             Tail(tess))

\* for curve in curves: ... (the point list of curve_loop_area_xy and _centroid_from_loop)
RECURSIVE CoalescedPoints(_, _)
CoalescedPoints(pts, curves) ==
    IF curves = <<>>
    THEN pts
    ELSE CoalescedPoints(AppendTessellated(pts, Head(curves)), Tail(curves))

\* a point list left as it is
ClosedPoints_Open(pts) == pts

\* if pts[0].DistanceTo(pts[-1]) > 1e-6: pts.append(pts[0])
ClosedPoints(pts) == IF pts[1] # pts[Len(pts)] THEN Append(pts, pts[1]) ELSE pts

\* sum over i in range(len(pts) - 1) of pts[i].X * pts[i+1].Y - pts[i+1].X * pts[i].Y
RECURSIVE CrossSum(_, _)
CrossSum(pts, i) ==
    IF i >= Len(pts)
    THEN 0
    ELSE pts[i][1] * pts[i + 1][2] - pts[i + 1][1] * pts[i][2] + CrossSum(pts, i + 1)

\* curve_loop_area_xy, scaled by 2: the code returns 0.5 * area, the model the
\* integer `area` it accumulates (0 for the 0.0 of the early return).
curve_loop_area_xy(curves) ==
    LET pts == CoalescedPoints(<<>>, curves)
    IN  IF Len(pts) < 3 THEN 0 ELSE CrossSum(ClosedPoints(pts), 1)

NoLoop == [ok |-> FALSE, curves |-> <<>>]

\* the host's CurveLoop.Append: it raises when the curve does not start where
\* the loop built so far ends.
RECURSIVE AppendRaises(_, _)
AppendRaises(curves, i) ==
    IF i > Len(curves)
    THEN FALSE
    ELSE \/ (i > 1 /\ curves[i][1] # curves[i - 1][Len(curves[i - 1])])
         \/ AppendRaises(curves, i + 1)

\* the scan keeping the last loop of the largest area
BestLoopIndex_LastOnTie(loops, i, best, best_area) ==
    IF loops = <<>>
    THEN 0
    ELSE CHOOSE k \in DOMAIN loops :
             /\ \A j \in DOMAIN loops :
                    Abs(curve_loop_area_xy(loops[j])) <= Abs(curve_loop_area_xy(loops[k]))
             /\ \A j \in DOMAIN loops :
                    Abs(curve_loop_area_xy(loops[j])) = Abs(curve_loop_area_xy(loops[k])) => j <= k

\* the `for segs in loops` scan of get_outer_boundary_loop from loop i on, with
\* best_area scaled by 2 like curve_loop_area_xy; best = 0 stands for
\* best_curves = None.
RECURSIVE BestLoopIndex(_, _, _, _)
BestLoopIndex(loops, i, best, best_area) ==
    IF i > Len(loops)
    THEN best
    ELSE IF Abs(curve_loop_area_xy(loops[i])) > best_area
         THEN BestLoopIndex(loops, i + 1, i, Abs(curve_loop_area_xy(loops[i])))
         ELSE BestLoopIndex(loops, i + 1, best, best_area)

\* get_outer_boundary_loop(area), on area.GetBoundarySegments(opts) = loops
get_outer_boundary_loop(loops) ==
    IF loops = <<>>
    THEN NoLoop
    ELSE LET best == BestLoopIndex(loops, 1, 0, -2)
         IN  IF best = 0 \/ loops[best] = <<>>
             THEN NoLoop
             ELSE IF AppendRaises(loops[best], 1)
                  THEN NoLoop
                  ELSE [ok |-> TRUE, curves |-> loops[best]]

\* the closed loop of lines through the vertices v[1], ..., v[n], v[1]
Polygon(v) == [i \in 1..Len(v) |-> <<v[i], v[(i % Len(v)) + 1]>>]

(***************************************************************************)
(* _centroid_from_loop (MU 680-706).  The centroid is kept as the fraction *)
(* the code computes: cx / (6.0 * area) with area = 0.5 * (cross sum) is   *)
(* x / den with den = 3 * (cross sum).                                     *)
(***************************************************************************)

NoPoint == [ok |-> FALSE, x |-> 0, y |-> 0, den |-> 1]

\* sum over i of (pts[i][c] + pts[i+1][c]) * cross, c = 1 for cx and 2 for cy
RECURSIVE CentroidSum(_, _, _)
CentroidSum(pts, c, i) ==
    IF i >= Len(pts)
    THEN 0
    ELSE (pts[i][c] + pts[i + 1][c])
             * (pts[i][1] * pts[i + 1][2] - pts[i + 1][1] * pts[i][2])
         + CentroidSum(pts, c, i + 1)

\* a centroid computed without the test for a zero area
centroid_from_loop_NoAreaTest(loop) ==
    LET pts == CoalescedPoints(<<>>, loop)
    IN  IF Len(pts) < 3
        THEN NoPoint
        ELSE [ok |-> TRUE, x |-> CentroidSum(ClosedPoints(pts), 1, 1),
              y |-> CentroidSum(ClosedPoints(pts), 2, 1),
              den |-> 3 * CrossSum(ClosedPoints(pts), 1)]

\* _centroid_from_loop(loop), NoPoint for None
centroid_from_loop(loop) ==
    LET pts == CoalescedPoints(<<>>, loop)
    IN  IF Len(pts) < 3
        THEN NoPoint
        ELSE IF CrossSum(ClosedPoints(pts), 1) = 0
             THEN NoPoint
             ELSE [ok |-> TRUE, x |-> CentroidSum(ClosedPoints(pts), 1, 1),
                   y |-> CentroidSum(ClosedPoints(pts), 2, 1),
                   den |-> 3 * CrossSum(ClosedPoints(pts), 1)]

(***************************************************************************)
(* The areas of the document.  Number, Name and the parameters are the     *)
(* host's; loops is what GetBoundarySegments returns; bbox tells whether   *)
(* get_BoundingBox(base_view) returns a box; inside holds the points for   *)
(* which IsPointInArea answers true (of the points asked about); fillLoop, *)
(* fillBox, cropLoop and cropBox tell whether the host accepts the         *)
(* boundary loop and the bounding-box rectangle in FilledRegion.Create and *)
(* in SetCropShape (it raises otherwise).                                  *)
(***************************************************************************)

AreaTable ==
    (1 :> [Number |-> "101", Name |-> "A", bbox |-> TRUE, inside |-> {<<2, 1>>},
           loops |-> <<Polygon(<<(<<0, 0>>), (<<3, 0>>), (<<2, 2>>)>>)>>,
           fillLoop |-> TRUE, fillBox |-> TRUE, cropLoop |-> TRUE, cropBox |-> TRUE])
    @@ (2 :> [Number |-> "101", Name |-> "A", bbox |-> TRUE, inside |-> {<<1, 3>>},
           loops |-> <<Polygon(<<(<<0, 0>>), (<<0, 1>>), (<<2, 2>>)>>),
                       Polygon(<<(<<0, 0>>), (<<3, 0>>), (<<0, 1>>)>>)>>,
           fillLoop |-> FALSE, fillBox |-> TRUE, cropLoop |-> FALSE, cropBox |-> TRUE])
    @@ (3 :> [Number |-> "102", Name |-> "B", bbox |-> TRUE, inside |-> {},
           loops |-> <<>>,
           fillLoop |-> TRUE, fillBox |-> TRUE, cropLoop |-> TRUE, cropBox |-> TRUE])
    @@ (4 :> [Number |-> "", Name |-> "", bbox |-> TRUE, inside |-> {<<1, 0>>},
           loops |-> <<Polygon(<<(<<0, 0>>), (<<3, 0>>), (<<0, 1>>)>>)>>,
           fillLoop |-> FALSE, fillBox |-> FALSE, cropLoop |-> FALSE, cropBox |-> FALSE])
    @@ (5 :> [Number |-> "103", Name |-> "C", bbox |-> FALSE, inside |-> {},
           loops |-> <<(<<(<<(<<0, 0>>), (<<3, 0>>)>>), (<<(<<2, 2>>), (<<0, 0>>)>>)>>)>>,
           fillLoop |-> FALSE, fillBox |-> FALSE, cropLoop |-> FALSE, cropBox |-> FALSE])
    @@ (6 :> [Number |-> "101", Name |-> "D", bbox |-> TRUE, inside |-> {},
           loops |-> <<>>,
           fillLoop |-> FALSE, fillBox |-> FALSE, cropLoop |-> FALSE, cropBox |-> FALSE])

AreaIds == DOMAIN AreaTable

\* get_parameter_names(elem): the sorted names of the element's parameters
get_parameter_names(area) == <<"Name", "Number">>

ParameterValue(area, name) ==
    IF name = "Name" THEN AreaTable[area].Name ELSE AreaTable[area].Number

\* get_param_value(elem, name), for the string parameters of an area
get_param_value(area, name) ==
    IF name = None \/ name = ""
    THEN ""
    ELSE IF \A i \in DOMAIN get_parameter_names(area) : get_parameter_names(area)[i] # name
         THEN ""
         ELSE ParameterValue(area, name)

\* area_elem.Name or area_elem.Id.IntegerValue, as the text the dialog shows
AreaLabel(area) == IF AreaTable[area].Name # "" THEN AreaTable[area].Name ELSE ToString(area)

Range(seq) == {seq[i] : i \in DOMAIN seq}

\* str.lower(), for the letters the names of the doors use
UpperToLower ==
    ("D" :> "d") @@ ("E" :> "e") @@ ("N" :> "n") @@ ("R" :> "r") @@ ("S" :> "s")
        @@ ("T" :> "t") @@ ("Y" :> "y")

lower(text) ==
    [i \in DOMAIN text |->
        IF text[i] \in DOMAIN UpperToLower THEN UpperToLower[text[i]] ELSE text[i]]

\* `sub in text`
Contains(sub, text) ==
    \E i \in 1..(Len(text) - Len(sub) + 1) : SubSeq(text, i, i + Len(sub) - 1) = sub

\* " ".join([p for p in parts if p])
RECURSIVE Joined(_)
Joined(parts) ==
    IF parts = <<>> THEN <<>>
    ELSE IF Head(parts) = <<>> THEN Joined(Tail(parts))
    ELSE IF Joined(Tail(parts)) = <<>> THEN Head(parts)
    ELSE Head(parts) \o <<" ">> \o Joined(Tail(parts))

\* _door_name_matches(door): the instance name, the type name parameter, the
\* symbol's name and its family name, joined and lowered, contain "entry"
door_name_matches(door) ==
    Contains(<<"e", "n", "t", "r", "y">>,
             lower(Joined(<<DoorTable[door].Name, DoorTable[door].TypeName,
                            DoorTable[door].TypeName, DoorTable[door].FamilyName>>)))

\* _door_location_point(door), <<>> for None
door_location_point(door) == DoorTable[door].loc

\* _door_points_for_check(door): the location point and, with a non-zero
\* facing vector, the points one unit before and behind it (in XY)
door_points_for_check(door) ==
    LET p == DoorTable[door].loc
        f == DoorFacing[door]
    IN  IF p = <<>>
        THEN <<>>
        ELSE IF DoorTable[door].facing = <<0, 0, 0>>
             THEN <<p>>
             ELSE <<p, <<p[1] + f[1], p[2] + f[2]>>, <<p[1] - f[1], p[2] - f[2]>>,
                    <<p[1] + f[1] - f[1], p[2] + f[2] - f[2]>>>>

\* _area_centroid(area)
area_centroid(area) ==
    IF get_outer_boundary_loop(AreaTable[area].loops).ok
    THEN centroid_from_loop(get_outer_boundary_loop(AreaTable[area].loops).curves)
    ELSE NoPoint

\* the sort key of the nearest-door search: the distance from the door's
\* location point to the centroid (squared, times the square of the
\* centroid's denominator), inf for a door without location point
DistanceKey(door, centroid) ==
    IF door_location_point(door) = <<>>
    THEN [inf |-> TRUE, d |-> 0]
    ELSE [inf |-> FALSE,
          d |-> (centroid.den * door_location_point(door)[1] - centroid.x)
                    * (centroid.den * door_location_point(door)[1] - centroid.x)
                + (centroid.den * door_location_point(door)[2] - centroid.y)
                    * (centroid.den * door_location_point(door)[2] - centroid.y)]

KeyLess(a, b) == ~a.inf /\ (b.inf \/ a.d < b.d)

\* the doors with a sample point inside the area, taken from all doors of
\* the view whatever their name
InsideDoors_AnyName(area, doors) ==
    SelectSeq(doors, LAMBDA d :
        \E i \in DOMAIN door_points_for_check(d) :
            door_points_for_check(d)[i] \in AreaTable[area].inside)

\* matches: the entry doors of the view with a sample point inside the area
InsideDoors(area, doors) ==
    SelectSeq(doors, LAMBDA d :
        /\ door_name_matches(d)
        /\ \E i \in DOMAIN door_points_for_check(d) :
               door_points_for_check(d)[i] \in AreaTable[area].inside)

\* a door whose sort key is not the least
NearestDoor_Last(candidates, centroid) == candidates[Len(candidates)]

\* candidates.sort(key=distance to the centroid); candidates[0]: the sort is
\* stable, so of the doors at the least distance the first listed
NearestDoor(candidates, centroid) ==
    candidates[CHOOSE i \in DOMAIN candidates :
                   /\ \A j \in DOMAIN candidates :
                          ~KeyLess(DistanceKey(candidates[j], centroid),
                                   DistanceKey(candidates[i], centroid))
                   /\ \A j \in 1..(i - 1) :
                          KeyLess(DistanceKey(candidates[i], centroid),
                                  DistanceKey(candidates[j], centroid))]

\* find_entry_door_in_area(area, view), NoId for None; doors are the doors
\* the collector finds in the view
find_entry_door_in_area(area, doors) ==
    IF area = NoId
    THEN NoId
    ELSE IF InsideDoors(area, doors) # <<>>
         THEN CHOOSE d \in Range(InsideDoors(area, doors)) :
                  \A e \in Range(InsideDoors(area, doors)) : d <= e
         ELSE IF area_centroid(area).ok /\ SelectSeq(doors, door_name_matches) # <<>>
              THEN NearestDoor(SelectSeq(doors, door_name_matches), area_centroid(area))
              ELSE NoId

\* the door find_entry_door_in_area finds for each area in the base view
BaseViewEntryDoor ==
    [area \in AreaIds \cup {NoId} |-> find_entry_door_in_area(area, BaseViewDoors)]

(***************************************************************************)
(* main(): preconditions, config restore, the dialog loop                  *)
(***************************************************************************)

\* an index that is never restored
RestoredIndex_Default(sorted_list, last_id, default) == default

\* for idx, t in enumerate(sorted_list): if t.Id.IntegerValue == int(last_id):
\* the 0-based index of the id, default when the saved id is unset or not found
RestoredIndex(sorted_list, last_id, default) ==
    IF last_id # NoId /\ \E i \in DOMAIN sorted_list : sorted_list[i] = last_id
    THEN (CHOOSE i \in DOMAIN sorted_list : sorted_list[i] = last_id) - 1
    ELSE default

\* element_is_category(doc.GetElement(ElementId(last_area_id)), OST_Areas)
ResolvesToArea(id) == id # NoId /\ id \in AreaIds

ResolvesToDoor(id) == id # NoId /\ id \in DoorIds

UnsetConfig ==
    [last_area_id |-> NoId, last_door_id |-> NoId, last_template_id |-> NoId,
     last_titleblock_id |-> NoId, last_sheet_number_param |-> None,
     last_sheet_name_param |-> None, last_overwrite_existing |-> FALSE,
     last_keyplan_enabled |-> FALSE, last_keyplan_template_id |-> NoId,
     last_fill_type_id |-> NoId]

\* the `state` dict main() builds from the config
RestoredState ==
    IF script = "marketing"
    THEN [area |-> IF ResolvesToArea(config.last_area_id) THEN config.last_area_id ELSE NoId,
          areas |-> IF ResolvesToArea(config.last_area_id)
                    THEN <<config.last_area_id>> ELSE <<>>,
          area_label |-> IF ResolvesToArea(config.last_area_id)
                         THEN AreaLabel(config.last_area_id) ELSE None,
          door |-> IF ResolvesToDoor(config.last_door_id) THEN config.last_door_id ELSE NoId,
          sheet_number_param |-> config.last_sheet_number_param,
          sheet_name_param |-> config.last_sheet_name_param,
          overwrite_existing |-> config.last_overwrite_existing,
          keyplan_enabled |-> config.last_keyplan_enabled,
          template_index |-> RestoredIndex(library.templates, config.last_template_id, 0),
          titleblock_index |-> RestoredIndex(library.titleblocks, config.last_titleblock_id, 0),
          keyplan_template_index |->
              RestoredIndex(library.templates, config.last_keyplan_template_id, 0),
          fill_type_index |-> RestoredIndex(library.fillTypes, config.last_fill_type_id, 0)]
    ELSE [area |-> NoId,
          areas |-> IF ResolvesToArea(config.last_area_id)
                    THEN <<config.last_area_id>> ELSE <<>>,
          area_label |-> IF ResolvesToArea(config.last_area_id)
                         THEN AreaLabel(config.last_area_id) ELSE None,
          door |-> NoId,
          sheet_number_param |-> None,
          sheet_name_param |-> None,
          overwrite_existing |-> FALSE,
          keyplan_enabled |-> FALSE,
          template_index |-> 0,
          titleblock_index |-> 0,
          keyplan_template_index |->
              RestoredIndex(library.templates, config.last_keyplan_template_id, 0),
          fill_type_index |-> RestoredIndex(library.fillTypes, config.last_fill_type_id, 0)]

IdleState ==
    [area |-> NoId, areas |-> <<>>, area_label |-> None, door |-> NoId,
     sheet_number_param |-> None, sheet_name_param |-> None,
     overwrite_existing |-> FALSE, keyplan_enabled |-> FALSE, template_index |-> 0,
     titleblock_index |-> 0, keyplan_template_index |-> 0, fill_type_index |-> 0]

\* _load_*_choices: the SelectedIndex a combo over `items` gets from state
LoadedIndex(items, index) ==
    IF items = <<>> THEN -1 ELSE IF 0 <= index /\ index < Len(items) THEN index ELSE 0

\* _load_param_choices: the SelectedItem of a parameter combo (None: nothing selected)
LoadedParam(names, name) ==
    IF names = <<>>
    THEN None
    ELSE IF \E i \in DOMAIN names : names[i] = name THEN name ELSE names[1]

NoSelection ==
    [sheet_number_param |-> None, sheet_name_param |-> None, template |-> NoId,
     keyplan_template |-> NoId, fill_type |-> NoId, titleblock |-> NoId,
     overwrite |-> FALSE, create_keyplan |-> FALSE]

\* KeyplanForm.__init__ / MarketingViewForm.__init__ on `state` = st
NewForm(st) ==
    IF script = "marketing"
    THEN [selected_area |-> st.area,
          template |-> LoadedIndex(library.templates, st.template_index),
          titleblock |-> LoadedIndex(library.titleblocks, st.titleblock_index),
          keyplan_template |-> LoadedIndex(library.templates, st.keyplan_template_index),
          fill |-> LoadedIndex(library.fillTypes, st.fill_type_index),
          keyplan |-> st.keyplan_enabled,
          overwrite |-> st.overwrite_existing,
          number_param |->
              LoadedParam(IF st.area # NoId THEN get_parameter_names(st.area) ELSE <<>>,
                          st.sheet_number_param),
          name_param |->
              LoadedParam(IF st.area # NoId THEN get_parameter_names(st.area) ELSE <<>>,
                          st.sheet_name_param),
          selected |-> NoSelection]
    ELSE [selected_area |-> NoId,
          template |-> -1,
          titleblock |-> -1,
          keyplan_template |-> LoadedIndex(library.templates, st.keyplan_template_index),
          fill |-> LoadedIndex(library.fillTypes, st.fill_type_index),
          keyplan |-> FALSE,
          overwrite |-> FALSE,
          number_param |-> None,
          name_param |-> None,
          selected |-> NoSelection]

NoForm ==
    [selected_area |-> NoId, template |-> -1, titleblock |-> -1, keyplan_template |-> -1,
     fill |-> -1, keyplan |-> FALSE, overwrite |-> FALSE, number_param |-> None,
     name_param |-> None, selected |-> NoSelection]

NoAlert == [kind |-> "none", text |-> "", created |-> <<>>, failed |-> <<>>, warnings |-> <<>>]

\* uiutils.uiUtils_alert(text)
Message(text) ==
    [kind |-> "message", text |-> text, created |-> <<>>, failed |-> <<>>, warnings |-> <<>>]

\* the preconditions without the titleblock check
FailedPrecondition_NoTitleblockCheck ==
    IF ~library.isPlan THEN "Active view must be a plan view."
    ELSE IF library.templates = <<>> THEN "No view templates found for this view type."
    ELSE IF library.fillTypes = <<>> THEN "No filled region types found."
    ELSE None

\* the first precondition of main() that fails, None when all hold
FailedPrecondition ==
    IF ~library.isPlan THEN "Active view must be a plan view."
    ELSE IF library.templates = <<>> THEN "No view templates found for this view type."
    ELSE IF library.fillTypes = <<>> THEN "No filled region types found."
    ELSE IF script = "marketing" /\ library.titleblocks = <<>>
         THEN "No titleblock types found."
    ELSE None

\* main(), lines up to the first return: a precondition fails, the alert is
\* shown and the run ends.
PreconditionAlert ==
    /\ IsViewScript
    /\ pc = "start"
    /\ FailedPrecondition # None
    /\ alert' = Message(FailedPrecondition)
    /\ pc' = "done"
    /\ UNCHANGED <<script, library, views, sheets, nextId, config, state, form, dialogResult,
                   sel, pos, cur, results, txn, hist, boundary, call, ret, elements, copy>>

\* main(): the preconditions hold, state is restored from the config and the
\* dialog is shown for the first time.
RestoreAndShow ==
    /\ IsViewScript
    /\ pc = "start"
    /\ FailedPrecondition = None
    /\ state' = RestoredState
    /\ form' = NewForm(RestoredState)
    /\ hist' = [hist EXCEPT !.shown = TRUE, !.changes = 0]
    /\ pc' = "dialog"
    /\ UNCHANGED <<script, library, views, sheets, nextId, config, dialogResult, sel, pos, cur,
                   results, txn, alert, boundary, call, ret, elements, copy>>

\* the values the user can give a control of the open dialog
ControlValues(control) ==
    CASE control = "template" -> 0..(Len(library.templates) - 1)
      [] control = "titleblock" -> 0..(Len(library.titleblocks) - 1)
      [] control = "keyplan_template" ->
             IF script = "marketing" /\ ~form.keyplan THEN {}
             ELSE 0..(Len(library.templates) - 1)
      [] control = "fill" ->
             IF script = "marketing" /\ ~form.keyplan THEN {}
             ELSE 0..(Len(library.fillTypes) - 1)
      [] control = "keyplan" -> BOOLEAN
      [] control = "overwrite" -> BOOLEAN
      [] control = "number_param" ->
             IF form.selected_area = NoId THEN {}
             ELSE Range(get_parameter_names(form.selected_area))
      [] control = "name_param" ->
             IF form.selected_area = NoId THEN {}
             ELSE Range(get_parameter_names(form.selected_area))

KeyplanControls == {"keyplan_template", "fill"}

MarketingControls ==
    {"template", "titleblock", "keyplan_template", "fill", "keyplan", "overwrite",
     "number_param", "name_param"}

\* the numbers of control changes per showing of the dialog and of picks per
\* run that are explored
MaxChanges == 2

MaxPicks == 1

\* the user changes one control of the open dialog
UserSelects(control, value) ==
    /\ pc = "dialog"
    /\ control \in (IF script = "marketing" THEN MarketingControls ELSE KeyplanControls)
    /\ value \in ControlValues(control)
    /\ value # form[control]
    /\ hist.changes < MaxChanges
    /\ form' = [form EXCEPT ![control] = value]
    /\ hist' = [hist EXCEPT !.changes = @ + 1]
    /\ UNCHANGED <<script, pc, library, views, sheets, nextId, config, state, dialogResult,
                   sel, pos, cur, results, txn, alert, boundary, call, ret, elements, copy>>

\* KeyplanForm._on_pick_area / MarketingViewForm._on_pick_area
OnPickArea ==
    /\ pc = "dialog"
    /\ hist.picks < MaxPicks
    /\ state' =
           IF script = "marketing"
           THEN [state EXCEPT
                    !.template_index = IF form.template >= 0 THEN form.template ELSE @,
                    !.keyplan_template_index =
                        IF form.keyplan_template >= 0 THEN form.keyplan_template ELSE @,
                    !.fill_type_index = IF form.fill >= 0 THEN form.fill ELSE @,
                    !.keyplan_enabled = form.keyplan,
                    !.titleblock_index = IF form.titleblock >= 0 THEN form.titleblock ELSE @,
                    !.sheet_number_param =
                        IF form.number_param # None THEN form.number_param ELSE @,
                    !.sheet_name_param =
                        IF form.name_param # None THEN form.name_param ELSE @]
           ELSE [state EXCEPT
                    !.keyplan_template_index =
                        IF form.keyplan_template >= 0 THEN form.keyplan_template ELSE @,
                    !.fill_type_index = IF form.fill >= 0 THEN form.fill ELSE @]
    /\ dialogResult' = "Retry"
    /\ pc' = "closed"
    /\ UNCHANGED <<script, library, views, sheets, nextId, config, form, sel, pos, cur, results,
                   txn, alert, hist, boundary, call, ret, elements, copy>>

\* an _on_create without the test for a picked area
CreateRefusal_NoAreaTest ==
    IF script = "marketing"
    THEN IF form.number_param = None \/ form.name_param = None
         THEN "Please select sheet parameter mappings."
         ELSE IF form.template < 0 THEN "Please select a marketing view template."
         ELSE IF form.titleblock < 0 THEN "Please select a titleblock."
         ELSE IF form.keyplan /\ form.keyplan_template < 0
         THEN "Please select a keyplan view template."
         ELSE IF form.keyplan /\ form.fill < 0
         THEN "Please select a keyplan filled region type."
         ELSE None
    ELSE IF form.keyplan_template < 0 THEN "Please select a keyplan view template."
         ELSE IF form.fill < 0 THEN "Please select a keyplan filled region type."
         ELSE None

\* the first check of _on_create that fails, None when the dialog may close
CreateRefusal ==
    IF script = "marketing"
    THEN IF form.selected_area = NoId /\ state.areas = <<>>
         THEN "Please pick at least one area."
         ELSE IF form.number_param = None \/ form.name_param = None
         THEN "Please select sheet parameter mappings."
         ELSE IF form.template < 0 THEN "Please select a marketing view template."
         ELSE IF form.titleblock < 0 THEN "Please select a titleblock."
         ELSE IF form.keyplan /\ form.keyplan_template < 0
         THEN "Please select a keyplan view template."
         ELSE IF form.keyplan /\ form.fill < 0
         THEN "Please select a keyplan filled region type."
         ELSE None
    ELSE IF state.areas = <<>> THEN "Please pick at least one area."
         ELSE IF form.keyplan_template < 0 THEN "Please select a keyplan view template."
         ELSE IF form.fill < 0 THEN "Please select a keyplan filled region type."
         ELSE None

\* the selected_* attributes _on_create sets before it closes the dialog
CreateSelection ==
    IF script = "marketing"
    THEN [sheet_number_param |-> form.number_param,
          sheet_name_param |-> form.name_param,
          template |-> library.templates[form.template + 1],
          keyplan_template |->
              IF form.keyplan THEN library.templates[form.keyplan_template + 1] ELSE NoId,
          fill_type |-> IF form.keyplan THEN library.fillTypes[form.fill + 1] ELSE NoId,
          titleblock |-> library.titleblocks[form.titleblock + 1],
          overwrite |-> form.overwrite,
          create_keyplan |-> form.keyplan]
    ELSE [NoSelection EXCEPT
              !.keyplan_template = library.templates[form.keyplan_template + 1],
              !.fill_type = library.fillTypes[form.fill + 1]]

\* _on_create
OnCreate ==
    /\ pc = "dialog"
    /\ IF CreateRefusal # None
       THEN /\ alert' = Message(CreateRefusal)
            /\ UNCHANGED <<pc, form, dialogResult>>
       ELSE /\ form' = [form EXCEPT !.selected = CreateSelection]
            /\ dialogResult' = "OK"
            /\ pc' = "closed"
            /\ UNCHANGED alert
    /\ UNCHANGED <<script, library, views, sheets, nextId, config, state, sel, pos, cur,
                   results, txn, hist, boundary, call, ret, elements, copy>>

\* _on_cancel, or the user closes the window
OnCancel ==
    /\ pc = "dialog"
    /\ dialogResult' = "Cancel"
    /\ pc' = "closed"
    /\ UNCHANGED <<script, library, views, sheets, nextId, config, state, form, sel, pos, cur,
                   results, txn, alert, hist, boundary, call, ret, elements, copy>>

\* the area label main() sets after a pick
PickedLabel(picked) ==
    IF picked = <<>> THEN "(not selected)"
    ELSE IF Len(picked) > 1 THEN ToString(Len(picked)) \o " areas selected"
    ELSE AreaLabel(picked[1])

\* `state` after pick_elements returned `picked` (the Retry branch of main())
StateAfterPick(picked) ==
    IF script = "marketing"
    THEN [state EXCEPT
             !.areas = picked,
             !.area = IF picked = <<>> THEN NoId ELSE picked[1],
             !.area_label = PickedLabel(picked),
             !.sheet_number_param = None,
             !.sheet_name_param = None,
             !.door = BaseViewEntryDoor[IF picked = <<>> THEN NoId ELSE picked[1]]]
    ELSE [state EXCEPT !.areas = picked, !.area_label = PickedLabel(picked)]

\* the Retry branch of main(): pick_elements returns the areas the user picked
\* and the dialog is shown again
PickAreas(picked) ==
    /\ pc = "closed"
    /\ dialogResult = "Retry"
    /\ state' = StateAfterPick(picked)
    /\ form' = NewForm(StateAfterPick(picked))
    /\ hist' = [hist EXCEPT !.shown = TRUE, !.changes = 0, !.picks = @ + 1, !.pick = "returned"]
    /\ pc' = "dialog"
    /\ UNCHANGED <<script, library, views, sheets, nextId, config, dialogResult, sel, pos, cur,
                   results, txn, alert, boundary, call, ret, elements, copy>>

\* a cancelled pick handled as a pick of no area
StateAfterCancelledPick_Cleared == StateAfterPick(<<>>)

\* `state` after pick_elements raised OperationCanceledException: the
\* `continue` of the except clause skips every assignment
StateAfterCancelledPick == state

\* the Retry branch of main(): the user cancels the pick
\* (OperationCanceledException) and the dialog is shown again
PickCancelled ==
    /\ pc = "closed"
    /\ dialogResult = "Retry"
    /\ state' = StateAfterCancelledPick
    /\ form' = NewForm(StateAfterCancelledPick)
    /\ hist' = [hist EXCEPT !.shown = TRUE, !.changes = 0, !.picks = @ + 1,
                            !.pick = "cancelled"]
    /\ pc' = "dialog"
    /\ UNCHANGED <<script, library, views, sheets, nextId, config, dialogResult, sel, pos, cur,
                   results, txn, alert, boundary, call, ret, elements, copy>>

\* a cancel that writes the config before it returns
MainCancel_Saves ==
    /\ pc = "closed"
    /\ dialogResult \notin {"Retry", "OK"}
    /\ config' = [config EXCEPT !.last_area_id = NoId]
    /\ hist' = [hist EXCEPT !.saves = @ + 1]
    /\ pc' = "done"
    /\ UNCHANGED <<script, library, views, sheets, nextId, state, form, dialogResult,
                   sel, pos, cur, results, txn, alert, boundary, call, ret, elements, copy>>

\* main(): `if result != DialogResult.OK: return`
MainCancel ==
    /\ pc = "closed"
    /\ dialogResult \notin {"Retry", "OK"}
    /\ pc' = "done"
    /\ UNCHANGED <<script, library, views, sheets, nextId, config, state, form, dialogResult,
                   sel, pos, cur, results, txn, alert, hist, boundary, call, ret, elements, copy>>

NoSel == [areas |-> <<>>, chosen |-> NoSelection]

\* `areas` of main() after a confirmed dialog
ConfirmedAreas ==
    IF state.areas # <<>> THEN state.areas
    ELSE IF script = "marketing" /\ state.area # NoId THEN <<state.area>>
    ELSE <<>>

\* a confirmed dialog after which nothing is written to the config
SavedConfig_NotWritten == config

\* the config main() writes after a confirmed dialog
SavedConfig ==
    IF script = "marketing"
    THEN [last_area_id |-> IF ConfirmedAreas # <<>> THEN ConfirmedAreas[1] ELSE NoId,
          last_door_id |->
              IF ConfirmedAreas # <<>>
              THEN BaseViewEntryDoor[ConfirmedAreas[1]]
              ELSE NoId,
          last_template_id |-> form.selected.template,
          last_titleblock_id |-> form.selected.titleblock,
          last_keyplan_enabled |-> form.selected.create_keyplan,
          last_keyplan_template_id |-> form.selected.keyplan_template,
          last_fill_type_id |-> form.selected.fill_type,
          last_sheet_number_param |->
              IF form.selected.sheet_number_param = None THEN ""
              ELSE form.selected.sheet_number_param,
          last_sheet_name_param |->
              IF form.selected.sheet_name_param = None THEN ""
              ELSE form.selected.sheet_name_param,
          last_overwrite_existing |-> form.selected.overwrite]
    ELSE [config EXCEPT
              !.last_area_id = IF ConfirmedAreas # <<>> THEN ConfirmedAreas[1] ELSE NoId,
              !.last_keyplan_template_id = form.selected.keyplan_template,
              !.last_fill_type_id = form.selected.fill_type]

\* main(): the dialog was confirmed; the locals are read from the form, the
\* config is written and saved, and the dialog loop is left
MainConfirm ==
    /\ pc = "closed"
    /\ dialogResult = "OK"
    /\ sel' = [areas |-> ConfirmedAreas, chosen |-> form.selected]
    /\ config' = SavedConfig
    /\ hist' = [hist EXCEPT !.saves = @ + 1]
    /\ pc' = "confirmed"
    /\ UNCHANGED <<script, library, views, sheets, nextId, state, form, dialogResult, pos, cur,
                   results, txn, alert, boundary, call, ret, elements, copy>>

(***************************************************************************)
(* main(): the transaction and the per-area creation loop                  *)
(***************************************************************************)

NoCur ==
    [sheet_number |-> "", sheet_name |-> "", base_label |-> "", view_name |-> "",
     existing_sheet |-> NoId, loop |-> "none", fallback |-> FALSE, door |-> NoId,
     rotated |-> FALSE, rotate_msg |-> "", marketing_view |-> NoId, keyplan_view |-> NoId,
     sheet |-> NoId, create_errors |-> <<>>, attempts |-> <<>>]

\* the name or number the host gives a new element: the first free one of
\* prefix 1, prefix 2, ...
RECURSIVE HostFreeName(_, _, _)
HostFreeName(prefix, existing, n) ==
    IF prefix \o ToString(n) \notin existing
    THEN prefix \o ToString(n)
    ELSE HostFreeName(prefix, existing, n + 1)

\* base_view.Duplicate(ViewDuplicateOption.Duplicate): a new view under a name
\* of the host's choosing
DuplicatedView(id) ==
    [Id |-> id, Name |-> HostFreeName(BaseViewName \o " Copy ", ExistingViewNames, 1),
     Template |-> NoId, Crop |-> "none", Fill |-> "none", Rotated |-> FALSE]

\* the loop entered without a transaction
EnterTransaction_NotStarted ==
    /\ pc = "confirmed"
    /\ hist' = [hist EXCEPT !.before = [views |-> views, sheets |-> sheets]]
    /\ results' = <<>>
    /\ pos' = 1
    /\ cur' = NoCur
    /\ pc' = "area"
    /\ UNCHANGED <<script, library, views, sheets, nextId, config, state, form, dialogResult,
                   sel, txn, alert, boundary, call, ret, elements, copy>>

\* `with revit.Transaction(...)`: the transaction starts
EnterTransaction ==
    /\ pc = "confirmed"
    /\ txn' = "open"
    /\ hist' = [hist EXCEPT !.txns = @ + 1, !.before = [views |-> views, sheets |-> sheets]]
    /\ results' = <<>>
    /\ pos' = 1
    /\ cur' = NoCur
    /\ pc' = "area"
    /\ UNCHANGED <<script, library, views, sheets, nextId, config, state, form, dialogResult,
                   sel, alert, boundary, call, ret, elements, copy>>

\* the `with` block ends normally: the transaction commits
ExitTransaction ==
    /\ pc = "area"
    /\ pos > Len(sel.areas)
    /\ txn' = "committed"
    /\ pc' = "summary"
    /\ UNCHANGED <<script, library, views, sheets, nextId, config, state, form, dialogResult,
                   sel, pos, cur, results, alert, hist, boundary, call, ret, elements, copy>>

InLoop == pc \in {"area", "k_name", "k_fill", "m_view", "m_keyplan", "m_kfill", "m_sheet", "m_place"}

\* a transaction block that keeps what was done before the exception
RolledBack_Kept == [views |-> views, sheets |-> sheets]

\* what the `with` block leaves of the document when an exception escapes it:
\* the host rolls the transaction back
RolledBack == hist.before

\* an exception escapes the loop body (a host call outside any try raises):
\* the transaction is rolled back and main() ends, its locals with it
ExceptionEscapes ==
    /\ InLoop
    /\ pos <= Len(sel.areas)
    /\ views' = RolledBack.views
    /\ sheets' = RolledBack.sheets
    /\ txn' = "rolled back"
    /\ cur' = NoCur
    /\ results' = <<>>
    /\ pc' = "done"
    /\ UNCHANGED <<script, library, nextId, config, state, form, dialogResult, sel, pos, alert,
                   hist, boundary, call, ret, elements, copy>>

Result(area, failed, warnings) ==
    [area |-> area, failed |-> failed, sheet |-> IF failed THEN NoId ELSE cur.sheet,
     marketing_view |-> IF failed THEN NoId ELSE cur.marketing_view,
     keyplan_view |-> IF failed THEN NoId ELSE cur.keyplan_view,
     warnings |-> warnings]

CurrentArea == sel.areas[pos]

(***************************************************************************)
(* The keyplan script's loop body (KP 386-441)                             *)
(***************************************************************************)

\* the loop the keyplan script goes on with: the boundary loop, else the
\* bounding-box rectangle, else none
KeyplanLoop(area) ==
    IF get_outer_boundary_loop(AreaTable[area].loops).ok THEN "loop"
    ELSE IF AreaTable[area].bbox THEN "box"
    ELSE "none"

\* area.Number or area.Name or str(area.Id.IntegerValue)
KeyplanBaseLabel(area) ==
    IF AreaTable[area].Number # "" THEN AreaTable[area].Number
    ELSE IF AreaTable[area].Name # "" THEN AreaTable[area].Name
    ELSE ToString(area)

\* KP 387-405: the loop is chosen; without one the area is failed, with one
\* the base view is duplicated
KeyplanAreaStart ==
    /\ script = "keyplan"
    /\ pc = "area"
    /\ pos <= Len(sel.areas)
    /\ IF KeyplanLoop(CurrentArea) = "none"
       THEN /\ results' = Append(results,
                    Result(CurrentArea, TRUE, <<"Could not create a filled region boundary.">>))
            /\ pos' = pos + 1
            /\ UNCHANGED <<pc, cur, views, nextId>>
       ELSE /\ cur' = [NoCur EXCEPT
                          !.loop = KeyplanLoop(CurrentArea),
                          !.fallback = (KeyplanLoop(CurrentArea) = "box"),
                          !.base_label = KeyplanBaseLabel(CurrentArea),
                          !.keyplan_view = nextId]
            /\ views' = views \cup {DuplicatedView(nextId)}
            /\ nextId' = nextId + 1
            /\ pc' = "k_name"
            /\ UNCHANGED <<pos, results>>
    /\ UNCHANGED <<script, library, sheets, config, state, form, dialogResult, sel, txn,
                   alert, hist, boundary, call, ret, elements, copy>>

\* the views with view `id` renamed and given a template
ViewsRenamed(id, name, template) ==
    {IF v.Id = id THEN [v EXCEPT !.Name = name, !.Template = template] ELSE v : v \in views}

\* KP 406-409: keyplan_view.Name = unique_view_name("Keyplan - <label>")
KeyplanName ==
    /\ pc = "k_name"
    /\ views' = ViewsRenamed(cur.keyplan_view,
                             unique_view_name("Keyplan - " \o cur.base_label),
                             sel.chosen.keyplan_template)
    /\ pc' = "k_fill"
    /\ UNCHANGED <<script, library, sheets, nextId, config, state, form, dialogResult, sel,
                   pos, cur, results, txn, alert, hist, boundary, call, ret, elements, copy>>

\* whether the host accepts FilledRegion.Create with the loop of that kind
FillAccepted(area, kind) ==
    IF kind = "loop" THEN AreaTable[area].fillLoop ELSE AreaTable[area].fillBox

\* one call of a host operation that consumes a loop: the operation, the kind
\* of loop passed ("loop": the boundary loop, "box": the bounding-box
\* rectangle) and whether the host accepted it
Attempt(op, kind, ok) == [op |-> op, loop |-> kind, ok |-> ok]

\* a cascade that tries the rectangle although the first call succeeded
FillAttempts_Always(area, first, box) ==
    <<Attempt("fill", first, FillAccepted(area, first))>>
        \o (IF box THEN <<Attempt("fill", "box", FillAccepted(area, "box"))>> ELSE <<>>)

\* The FilledRegion.Create calls of the try/except cascade, in order: the loop
\* in hand first and, when that call raises and a rectangle can be built from
\* the bounding box, the rectangle.  first is the kind of the loop in hand,
\* box whether the area has a bounding box.
FillAttempts(area, first, box) ==
    IF FillAccepted(area, first)
    THEN <<Attempt("fill", first, TRUE)>>
    ELSE <<Attempt("fill", first, FALSE)>>
             \o (IF box THEN <<Attempt("fill", "box", FillAccepted(area, "box"))>> ELSE <<>>)

\* what a cascade of calls leaves behind: the loop of the accepted call, and
\* the warning of the except branches
CascadeOutcome(attempts, usedBox, notCreated) ==
    IF attempts[Len(attempts)].ok
    THEN [kind |-> attempts[Len(attempts)].loop,
          warnings |-> IF Len(attempts) = 1 THEN <<>> ELSE <<usedBox>>]
    ELSE [kind |-> "none", warnings |-> <<notCreated>>]

\* The filled region the try/except cascade leaves in the view and the
\* warning it adds: the loop first, then once the bounding-box rectangle.
\* first is the kind of the loop tried first, box whether a rectangle exists.
FillOutcome(area, first, box, usedBox, notCreated) ==
    [fill |-> CascadeOutcome(FillAttempts(area, first, box), usedBox, notCreated).kind,
     warnings |-> CascadeOutcome(FillAttempts(area, first, box), usedBox, notCreated).warnings]

ViewsFilled(id, fill) ==
    {IF v.Id = id THEN [v EXCEPT !.Fill = fill] ELSE v : v \in views}

\* KP 411-441: the filled region is created and the area's result appended
KeyplanFill ==
    /\ script = "keyplan"
    /\ pc = "k_fill"
    /\ LET out == FillOutcome(CurrentArea, cur.loop, AreaTable[CurrentArea].bbox,
                      "Filled region loop was discontinuous; used area bounding box.",
                      "Filled region could not be created.")
       IN  /\ views' = ViewsFilled(cur.keyplan_view, out.fill)
           /\ results' = Append(results, Result(CurrentArea, FALSE, out.warnings))
    /\ cur' = [cur EXCEPT
                  !.attempts = FillAttempts(CurrentArea, cur.loop, AreaTable[CurrentArea].bbox)]
    /\ pos' = pos + 1
    /\ pc' = "area"
    /\ UNCHANGED <<script, library, sheets, nextId, config, state, form, dialogResult, sel,
                   txn, alert, hist, boundary, call, ret, elements, copy>>

(***************************************************************************)
(* The marketing script's loop body (MU 1018-1199)                         *)
(***************************************************************************)

\* get_param_value(area, sheet_number_param), else area.Number
MarketingSheetNumber(area) ==
    IF get_param_value(area, sel.chosen.sheet_number_param) # ""
    THEN get_param_value(area, sel.chosen.sheet_number_param)
    ELSE AreaTable[area].Number

\* get_param_value(area, sheet_name_param), else area.Name or "Marketing Sheet"
MarketingSheetName(area) ==
    IF get_param_value(area, sel.chosen.sheet_name_param) # ""
    THEN get_param_value(area, sel.chosen.sheet_name_param)
    ELSE IF AreaTable[area].Name # "" THEN AreaTable[area].Name
    ELSE "Marketing Sheet"

\* sheet_name or area.Name or area.Number or "Marketing"
MarketingBaseLabel(area) ==
    IF MarketingSheetName(area) # "" THEN MarketingSheetName(area)
    ELSE IF AreaTable[area].Name # "" THEN AreaTable[area].Name
    ELSE IF AreaTable[area].Number # "" THEN AreaTable[area].Number
    ELSE "Marketing"

\* the sheet the lookup loop of MU 1030-1035 finds for the number (NoId: none)
ExistingSheet(number) ==
    IF number # "" /\ \E s \in sheets : s.SheetNumber = number
    THEN (CHOOSE s \in sheets : s.SheetNumber = number).Id
    ELSE NoId

\* a loop body that deletes the sheet to overwrite before it looks for the
\* boundary loop
MarketingAreaStart_DeletesFirst ==
    /\ script = "marketing"
    /\ pc = "area"
    /\ pos <= Len(sel.areas)
    /\ LET existing == ExistingSheet(MarketingSheetNumber(CurrentArea))
       IN  IF ~get_outer_boundary_loop(AreaTable[CurrentArea].loops).ok
           THEN /\ sheets' = IF sel.chosen.overwrite
                             THEN {s \in sheets : s.Id # existing}
                             ELSE sheets
                /\ results' = Append(results, Result(CurrentArea, TRUE,
                        <<"Could not get a closed boundary loop from the selected area.">>))
                /\ pos' = pos + 1
                /\ UNCHANGED <<pc, cur>>
           ELSE /\ cur' = [NoCur EXCEPT
                              !.sheet_number = MarketingSheetNumber(CurrentArea),
                              !.sheet_name = MarketingSheetName(CurrentArea),
                              !.base_label = MarketingBaseLabel(CurrentArea),
                              !.view_name = unique_view_name(
                                  "Marketing - " \o MarketingBaseLabel(CurrentArea)),
                              !.loop = "loop",
                              !.door = BaseViewEntryDoor[CurrentArea]]
                /\ sheets' = IF sel.chosen.overwrite
                             THEN {s \in sheets : s.Id # existing}
                             ELSE sheets
                /\ pc' = "m_view"
                /\ UNCHANGED <<pos, results>>
    /\ UNCHANGED <<script, library, views, nextId, config, state, form, dialogResult,
                   sel, txn, alert, hist, boundary, call, ret, elements, copy>>

\* MU 1019-1052: numbers and names are chosen; an area without a boundary
\* loop is failed
MarketingAreaStart ==
    /\ script = "marketing"
    /\ pc = "area"
    /\ pos <= Len(sel.areas)
    /\ LET number == MarketingSheetNumber(CurrentArea)
           base == "Marketing - " \o MarketingBaseLabel(CurrentArea)
           existing == ExistingSheet(number)
           asCopy == existing # NoId /\ ~sel.chosen.overwrite
       IN  IF ~get_outer_boundary_loop(AreaTable[CurrentArea].loops).ok
           THEN /\ results' = Append(results, Result(CurrentArea, TRUE,
                        <<"Could not get a closed boundary loop from the selected area.">>))
                /\ pos' = pos + 1
                /\ UNCHANGED <<pc, cur>>
           ELSE /\ cur' = [NoCur EXCEPT
                              !.sheet_number =
                                  IF asCopy THEN unique_sheet_number(number) ELSE number,
                              !.sheet_name = MarketingSheetName(CurrentArea),
                              !.base_label = MarketingBaseLabel(CurrentArea),
                              !.view_name =
                                  IF asCopy THEN unique_view_name(base \o " - copy")
                                  ELSE unique_view_name(base),
                              !.existing_sheet = existing,
                              !.loop = "loop",
                              !.door = BaseViewEntryDoor[CurrentArea]]
                /\ pc' = "m_view"
                /\ UNCHANGED <<pos, results>>
    /\ UNCHANGED <<script, library, views, sheets, nextId, config, state, form, dialogResult,
                   sel, txn, alert, hist, boundary, call, ret, elements, copy>>

\* what rotate_view_to_door reads and writes of a view: the crop box
\* visibility, the rotation of the crop element and the View Rotation
\* parameter (both in quarter turns)
RotationView(visible) == [CropBoxVisible |-> visible, CropRotation |-> 0, Rotation |-> 0]

\* atan2 of the facing vector against the Y axis, in quarter turns, for a
\* facing vector along an axis
RotationAngle(door) ==
    IF DoorFacing[door][1] > 0 THEN -1
    ELSE IF DoorFacing[door][1] < 0 THEN 1
    ELSE IF DoorFacing[door][2] < 0 THEN 2
    ELSE 0

\* a rotation that shows the crop box and regenerates before it looks at the
\* facing vector
rotate_view_to_door_ShowsCropFirst(view, door, rotation) ==
    [rotated |-> FALSE, msg |-> "Door facing vector is zero.",
     view |-> [view EXCEPT !.CropBoxVisible = TRUE], regenerated |-> TRUE]

\* rotate_view_to_door(view, door): the pair it returns, the view as it leaves
\* it and whether it has called doc.Regenerate().  rotation tells what the
\* host offers: a crop element, a writable or a read-only View Rotation
\* parameter, or none of them.
rotate_view_to_door(view, door, rotation) ==
    IF DoorFacing[door] = <<0, 0>>
    THEN [rotated |-> FALSE, msg |-> "Door facing vector is zero.",
          view |-> view, regenerated |-> FALSE]
    ELSE IF RotationAngle(door) = 0
    THEN [rotated |-> FALSE, msg |-> "Computed rotation angle is near zero.",
          view |-> view, regenerated |-> FALSE]
    ELSE IF rotation = "crop element"
    THEN [rotated |-> TRUE, msg |-> "Rotated.",
          view |-> [view EXCEPT !.CropBoxVisible = TRUE,
                                !.CropRotation = @ + RotationAngle(door)],
          regenerated |-> TRUE]
    ELSE IF rotation = "parameter"
    THEN [rotated |-> TRUE, msg |-> "Rotated.",
          view |-> [view EXCEPT !.CropBoxVisible = TRUE,
                                !.Rotation = @ + RotationAngle(door)],
          regenerated |-> TRUE]
    ELSE IF rotation = "read-only"
    THEN [rotated |-> FALSE,
          msg |-> "View rotation parameter is read-only and no crop element found.",
          view |-> [view EXCEPT !.CropBoxVisible = TRUE], regenerated |-> TRUE]
    ELSE [rotated |-> FALSE,
          msg |-> "No crop element found and view rotation parameter is unavailable or read-only.",
          view |-> [view EXCEPT !.CropBoxVisible = TRUE], regenerated |-> TRUE]

\* rotate_view_to_door(view, door), and the message main() uses without a door
RotateOutcome(door) ==
    IF door = NoId
    THEN [rotated |-> FALSE, msg |-> "No entry door found for this area."]
    ELSE [rotated |-> rotate_view_to_door(RotationView(TRUE), door, library.rotation).rotated,
          msg |-> rotate_view_to_door(RotationView(TRUE), door, library.rotation).msg]

\* whether the host accepts SetCropShape with the loop of that kind
CropAccepted(area, kind) ==
    IF kind = "loop" THEN AreaTable[area].cropLoop ELSE AreaTable[area].cropBox

\* the SetCropShape calls of the try/except cascade of MU 1071-1085, in order
CropAttempts(area) ==
    IF CropAccepted(area, "loop")
    THEN <<Attempt("crop", "loop", TRUE)>>
    ELSE <<Attempt("crop", "loop", FALSE)>>
             \o (IF AreaTable[area].bbox
                 THEN <<Attempt("crop", "box", CropAccepted(area, "box"))>>
                 ELSE <<>>)

\* the crop shape the try/except cascade of MU 1071-1085 leaves and its warning
CropOutcome(area) ==
    [crop |-> CascadeOutcome(CropAttempts(area),
                  "Area crop loop was discontinuous; used area bounding box instead.",
                  "Area crop loop was discontinuous; crop not set.").kind,
     warnings |-> CascadeOutcome(CropAttempts(area),
                  "Area crop loop was discontinuous; used area bounding box instead.",
                  "Area crop loop was discontinuous; crop not set.").warnings]

\* an overwrite that keeps the existing sheet
SheetsAfterOverwrite_Kept == sheets

\* doc.Delete(existing_sheet.Id) when overwriting
SheetsAfterOverwrite ==
    IF sel.chosen.overwrite /\ cur.existing_sheet # NoId
    THEN {s \in sheets : s.Id # cur.existing_sheet}
    ELSE sheets

\* MU 1055-1085: the existing sheet is deleted when overwriting, the base
\* view is duplicated, named, rotated and cropped
MarketingView ==
    /\ pc = "m_view"
    /\ sheets' = SheetsAfterOverwrite
    /\ views' = views \cup
           {[Id |-> nextId, Name |-> cur.view_name, Template |-> sel.chosen.template,
             Crop |-> CropOutcome(CurrentArea).crop, Fill |-> "none",
             Rotated |-> RotateOutcome(cur.door).rotated]}
    /\ cur' = [cur EXCEPT
                  !.marketing_view = nextId,
                  !.rotated = RotateOutcome(cur.door).rotated,
                  !.rotate_msg = RotateOutcome(cur.door).msg,
                  !.create_errors = CropOutcome(CurrentArea).warnings,
                  !.attempts = CropAttempts(CurrentArea)]
    /\ nextId' = nextId + 1
    /\ pc' = "m_keyplan"
    /\ UNCHANGED <<script, library, config, state, form, dialogResult, sel, pos, results,
                   txn, alert, hist, boundary, call, ret, elements, copy>>

\* MU 1087-1090: with keyplan creation on, the base view is duplicated again
MarketingKeyplan ==
    /\ pc = "m_keyplan"
    /\ IF /\ sel.chosen.create_keyplan
          /\ sel.chosen.keyplan_template # NoId
          /\ sel.chosen.fill_type # NoId
       THEN /\ views' = views \cup {DuplicatedView(nextId)}
            /\ cur' = [cur EXCEPT !.keyplan_view = nextId]
            /\ nextId' = nextId + 1
            /\ pc' = "m_kfill"
       ELSE /\ pc' = "m_sheet"
            /\ UNCHANGED <<views, cur, nextId>>
    /\ UNCHANGED <<script, library, sheets, config, state, form, dialogResult, sel, pos,
                   results, txn, alert, hist, boundary, call, ret, elements, copy>>

\* MU 1091-1114: the keyplan view is named and its filled region created
MarketingKeyplanFill ==
    /\ pc = "m_kfill"
    /\ LET out == FillOutcome(CurrentArea, "loop", AreaTable[CurrentArea].bbox,
                      "Keyplan fill loop was discontinuous; used area bounding box.",
                      "Keyplan fill loop was discontinuous; fill not created.")
       IN  /\ views' = {IF v.Id = cur.keyplan_view
                        THEN [v EXCEPT !.Name = unique_view_name("Keyplan - " \o cur.base_label),
                                       !.Template = sel.chosen.keyplan_template,
                                       !.Fill = out.fill]
                        ELSE v : v \in views}
           /\ cur' = [cur EXCEPT
                         !.create_errors = @ \o out.warnings,
                         !.attempts = @ \o FillAttempts(CurrentArea, "loop",
                                                        AreaTable[CurrentArea].bbox)]
    /\ pc' = "m_sheet"
    /\ UNCHANGED <<script, library, sheets, nextId, config, state, form, dialogResult, sel,
                   pos, results, txn, alert, hist, boundary, call, ret, elements, copy>>

\* MU 1116-1126: the sheet is created; the host may refuse the number or the
\* name, and the sheet then keeps the one the host gave it
MarketingSheet(numberRaises, nameRaises) ==
    /\ pc = "m_sheet"
    /\ numberRaises => cur.sheet_number # ""
    /\ nameRaises => cur.sheet_name # ""
    /\ sheets' = sheets \cup
           {[Id |-> nextId,
             SheetNumber |-> IF cur.sheet_number # "" /\ ~numberRaises THEN cur.sheet_number
                             ELSE HostFreeName("S", ExistingSheetNumbers, 1),
             Name |-> IF cur.sheet_name # "" /\ ~nameRaises THEN cur.sheet_name
                      ELSE "Unnamed",
             Titleblock |-> sel.chosen.titleblock,
             Viewports |-> {}]}
    /\ cur' = [cur EXCEPT
                  !.sheet = nextId,
                  !.create_errors =
                      @ \o (IF numberRaises
                            THEN <<"Sheet number '" \o cur.sheet_number \o "' could not be set.">>
                            ELSE <<>>)
                        \o (IF nameRaises
                            THEN <<"Sheet name '" \o cur.sheet_name \o "' could not be set.">>
                            ELSE <<>>)]
    /\ nextId' = nextId + 1
    /\ pc' = "m_place"
    /\ UNCHANGED <<script, library, views, config, state, form, dialogResult, sel, pos,
                   results, txn, alert, hist, boundary, call, ret, elements, copy>>

\* MU 1128-1199: the viewports are placed, the rotation warning is added and
\* the area's result appended
MarketingPlace ==
    /\ pc = "m_place"
    /\ sheets' = {IF s.Id = cur.sheet
                  THEN [s EXCEPT !.Viewports =
                            {cur.marketing_view} \cup
                                (IF sel.chosen.create_keyplan /\ cur.keyplan_view # NoId
                                 THEN {cur.keyplan_view} ELSE {})]
                  ELSE s : s \in sheets}
    /\ results' = Append(results,
           Result(CurrentArea, FALSE,
                  cur.create_errors \o (IF ~cur.rotated
                                        THEN <<"Rotation failed: " \o cur.rotate_msg>>
                                        ELSE <<>>)))
    /\ pos' = pos + 1
    /\ pc' = "area"
    /\ UNCHANGED <<script, library, views, nextId, config, state, form, dialogResult, sel,
                   cur, txn, alert, hist, boundary, call, ret, elements, copy>>

(***************************************************************************)
(* main(): the summary alert (KP 443-475, MU 1201-1253)                    *)
(***************************************************************************)

\* the warnings of all results, in order
RECURSIVE AllWarnings(_, _)
AllWarnings(res, i) ==
    IF i > Len(res) THEN <<>> ELSE res[i].warnings \o AllWarnings(res, i + 1)

\* the warnings listed as collected, repeats included
DistinctWarnings_All(w) == w

\* set(warnings) as the lines the alert lists: each distinct warning once.
\* (The code sorts them; the order of the lines is not modelled.)
RECURSIVE DistinctWarnings(_)
DistinctWarnings(w) ==
    IF w = <<>>
    THEN <<>>
    ELSE LET rest == DistinctWarnings(SubSeq(w, 1, Len(w) - 1))
         IN  IF w[Len(w)] \in Range(rest) THEN rest ELSE Append(rest, w[Len(w)])

\* r.get("keyplan_view") / r.get("sheet") is set
IsCreated(r) == IF script = "marketing" THEN r.sheet # NoId ELSE r.keyplan_view # NoId

IsFailed(r) == r.failed

Summary ==
    [kind |-> "summary",
     text |-> "",
     created |-> SelectSeq(results, IsCreated),
     failed |-> SelectSeq(results, IsFailed),
     warnings |-> DistinctWarnings(AllWarnings(results, 1))]

\* main() after the transaction: the final alert
ShowSummary ==
    /\ pc = "summary"
    /\ alert' = Summary
    /\ pc' = "done"
    /\ UNCHANGED <<script, library, views, sheets, nextId, config, state, form, dialogResult,
                   sel, pos, cur, results, txn, hist, boundary, call, ret, elements, copy>>

(***************************************************************************)
(* The parameter copy utility (changeparameter-script.py).  Texts are      *)
(* sequences of characters.                                                *)
(***************************************************************************)

\* a parameter of an element: whether the element has it, whether it holds no
\* value, its text, whether it is read-only, whether the host raises when it
\* is set
NoParam ==
    [exists |-> FALSE, null |-> TRUE, value |-> <<>>, readOnly |-> FALSE, setRaises |-> FALSE]

TextParam(value, readOnly) ==
    [exists |-> TRUE, null |-> FALSE, value |-> value, readOnly |-> readOnly,
     setRaises |-> FALSE]

NullParam ==
    [exists |-> TRUE, null |-> TRUE, value |-> <<>>, readOnly |-> FALSE, setRaises |-> FALSE]

\* a parameter the host refuses to set: param.Set raises
RaisingParam(value) == [TextParam(value, FALSE) EXCEPT !.setRaises = TRUE]

\* the elements the user can have selected, by element id
ElementTable ==
    (61 :> (("View Name" :> TextParam(<<"a", "b", "a">>, FALSE))
            @@ ("Title on Sheet" :> TextParam(<<"t">>, FALSE))))
    @@ (62 :> (("View Name" :> NullParam) @@ ("Title on Sheet" :> TextParam(<<"t">>, FALSE))))
    @@ (63 :> (("View Name" :> RaisingParam(<<"a", "a">>))
               @@ ("Title on Sheet" :> TextParam(<<"t">>, TRUE))))
    @@ (64 :> (("View Name" :> NoParam) @@ ("Title on Sheet" :> NoParam)))

ElementIds == DOMAIN ElementTable

\* the choices of forms.ask_for_one_item in show_input_dialog
ParamChoices == {"View Name", "Title on Sheet"}

\* str(None)
NoneText == <<"N", "o", "n", "e">>

\* get_parameter_value(element, param_name): found is FALSE for None
get_parameter_value(element, param_name) ==
    LET param == elements[element][param_name]
    IN  IF ~param.exists
        THEN [found |-> FALSE, text |-> <<>>]
        ELSE [found |-> TRUE, text |-> IF param.null THEN NoneText ELSE param.value]

\* str.replace(old, new) for a non-empty old
RECURSIVE replace(_, _, _)
replace(text, old, new) ==
    IF Len(text) < Len(old)
    THEN text
    ELSE IF SubSeq(text, 1, Len(old)) = old
         THEN new \o replace(SubSeq(text, Len(old) + 1, Len(text)), old, new)
         ELSE <<text[1]>> \o replace(Tail(text), old, new)

\* a setter that does not look at IsReadOnly
set_parameter_value_NoReadOnlyTest(element, param_name) ==
    elements[element][param_name].exists /\ ~elements[element][param_name].setRaises

\* the return value of set_parameter_value(element, param_name, value): False
\* without the parameter, for a read-only parameter and when param.Set raises
set_parameter_value(element, param_name) ==
    LET param == elements[element][param_name]
    IN  param.exists /\ ~param.readOnly /\ ~param.setRaises

\* the elements after param.Set(value)
ParameterSet(element, param_name, value) ==
    [elements EXCEPT ![element][param_name] = [@ EXCEPT !.null = FALSE, !.value = value]]

NoCopy ==
    [elements |-> <<>>, source_param |-> None, target_param |-> None, find_text |-> <<>>,
     replace_text |-> <<>>, success_count |-> 0, error_count |-> 0, counted |-> <<>>]

\* CP 128-132: the selection is read; without elements the run ends with an alert
CopyStart(selection) ==
    /\ script = "copy"
    /\ pc = "start"
    /\ copy' = [NoCopy EXCEPT !.elements = selection]
    /\ IF selection = <<>>
       THEN /\ alert' = Message("No elements selected. Please select elements and try again.")
            /\ pc' = "done"
       ELSE /\ pc' = "c_dialog"
            /\ UNCHANGED alert
    /\ UNCHANGED <<script, library, views, sheets, nextId, config, state, form, dialogResult,
                   sel, pos, cur, results, txn, hist, boundary, call, ret, elements>>

\* show_input_dialog returns None: the user gave no source or no target
CopyDialogCancelled ==
    /\ pc = "c_dialog"
    /\ pc' = "done"
    /\ UNCHANGED <<script, library, views, sheets, nextId, config, state, form, dialogResult,
                   sel, pos, cur, results, txn, alert, hist, boundary, call, ret, elements,
                   copy>>

\* show_input_dialog returns the four inputs (CP 135-146)
CopyDialogDone(source_param, target_param, find_text, replace_text) ==
    /\ pc = "c_dialog"
    /\ copy' = [copy EXCEPT !.source_param = source_param, !.target_param = target_param,
                            !.find_text = find_text, !.replace_text = replace_text]
    /\ pc' = "c_ready"
    /\ UNCHANGED <<script, library, views, sheets, nextId, config, state, form, dialogResult,
                   sel, pos, cur, results, txn, alert, hist, boundary, call, ret, elements>>

\* CP 148-149: txn.Start()
CopyTransactionStart ==
    /\ pc = "c_ready"
    /\ txn' = "open"
    /\ hist' = [hist EXCEPT !.txns = @ + 1]
    /\ pos' = 1
    /\ pc' = "c_loop"
    /\ UNCHANGED <<script, library, views, sheets, nextId, config, state, form, dialogResult,
                   sel, cur, results, alert, boundary, call, ret, elements, copy>>

\* the text the loop body sets the target parameter to
TargetValue(source_value) ==
    IF copy.find_text # <<>>
    THEN replace(source_value, copy.find_text, copy.replace_text)
    ELSE source_value

\* a loop body that passes over an element without the source parameter
\* without counting it
CopyElement_SkipsUncounted ==
    /\ pc = "c_loop"
    /\ pos <= Len(copy.elements)
    /\ LET element == copy.elements[pos]
           source == get_parameter_value(element, copy.source_param)
       IN  IF ~source.found
           THEN /\ copy' = [copy EXCEPT !.counted = Append(@, "no source")]
                /\ UNCHANGED elements
           ELSE IF set_parameter_value(element, copy.target_param)
                THEN /\ elements' = ParameterSet(element, copy.target_param,
                                                 TargetValue(source.text))
                     /\ copy' = [copy EXCEPT !.success_count = @ + 1,
                                             !.counted = Append(@, "success")]
                ELSE /\ copy' = [copy EXCEPT !.error_count = @ + 1,
                                             !.counted = Append(@, "not set")]
                     /\ UNCHANGED elements
    /\ pos' = pos + 1
    /\ UNCHANGED <<script, pc, library, views, sheets, nextId, config, state, form,
                   dialogResult, sel, cur, results, txn, alert, hist, boundary, call, ret>>

\* CP 151-172: one element of the loop
CopyElement ==
    /\ pc = "c_loop"
    /\ pos <= Len(copy.elements)
    /\ LET element == copy.elements[pos]
           source == get_parameter_value(element, copy.source_param)
       IN  IF ~source.found
           THEN /\ copy' = [copy EXCEPT !.error_count = @ + 1,
                                        !.counted = Append(@, "no source")]
                /\ UNCHANGED elements
           ELSE IF set_parameter_value(element, copy.target_param)
                THEN /\ elements' = ParameterSet(element, copy.target_param,
                                                 TargetValue(source.text))
                     /\ copy' = [copy EXCEPT !.success_count = @ + 1,
                                             !.counted = Append(@, "success")]
                ELSE /\ copy' = [copy EXCEPT !.error_count = @ + 1,
                                             !.counted = Append(@, "not set")]
                     /\ UNCHANGED elements
    /\ pos' = pos + 1
    /\ UNCHANGED <<script, pc, library, views, sheets, nextId, config, state, form,
                   dialogResult, sel, cur, results, txn, alert, hist, boundary, call, ret>>

\* CP 174: txn.Commit()
CopyTransactionCommit ==
    /\ pc = "c_loop"
    /\ pos > Len(copy.elements)
    /\ txn' = "committed"
    /\ pc' = "c_alert"
    /\ UNCHANGED <<script, library, views, sheets, nextId, config, state, form, dialogResult,
                   sel, pos, cur, results, alert, hist, boundary, call, ret, elements, copy>>

\* CP 177-178: the result message
CopyResults ==
    /\ pc = "c_alert"
    /\ alert' = Message("Operation Complete: Successful: " \o ToString(copy.success_count)
                        \o " Failed: " \o ToString(copy.error_count))
    /\ pc' = "done"
    /\ UNCHANGED <<script, library, views, sheets, nextId, config, state, form, dialogResult,
                   sel, pos, cur, results, txn, hist, boundary, call, ret, elements, copy>>

(***************************************************************************)
(* The values of the variables a specification does not use.               *)
(***************************************************************************)

NoCall == [fn |-> None]

NoLibrary ==
    [isPlan |-> TRUE, templates |-> <<>>, fillTypes |-> <<>>, titleblocks |-> <<>>,
     rotation |-> "crop element"]

NoHist ==
    [shown |-> FALSE, pick |-> "none", changes |-> 0, picks |-> 0, saves |-> 0, txns |-> 0,
     before |-> [views |-> {}, sheets |-> {}], run |-> 1, prev |-> NoSel]

NoRun ==
    /\ script = None
    /\ pc = "idle"
    /\ library = NoLibrary
    /\ nextId = 0
    /\ config = UnsetConfig
    /\ state = IdleState
    /\ form = NoForm
    /\ dialogResult = None
    /\ sel = NoSel
    /\ pos = 0
    /\ cur = NoCur
    /\ results = <<>>
    /\ txn = "none"
    /\ alert = NoAlert
    /\ hist = NoHist
    /\ copy = NoCopy

NoHelperCall ==
    /\ boundary = <<>>
    /\ call = NoCall
    /\ ret = None

(***************************************************************************)
(* The user runs the script again after main() has returned.               *)
(***************************************************************************)

MaxRuns == 2

RunAgain ==
    /\ IsViewScript
    /\ pc = "done"
    /\ hist.run < MaxRuns
    /\ pc' = "start"
    /\ state' = IdleState
    /\ form' = NoForm
    /\ dialogResult' = None
    /\ sel' = NoSel
    /\ pos' = 0
    /\ cur' = NoCur
    /\ results' = <<>>
    /\ txn' = "none"
    /\ alert' = NoAlert
    /\ hist' = [NoHist EXCEPT !.run = hist.run + 1, !.prev = sel]
    /\ UNCHANGED <<script, library, views, sheets, nextId, config, boundary, call, ret,
                   elements, copy>>

(***************************************************************************)
(* Specification SpecNames: the two generators called on documents whose   *)
(* names are drawn from pools in which bases and candidates collide.       *)
(***************************************************************************)

ViewNamePool ==
    <<"Keyplan - A", "Keyplan - A (1)", "Keyplan - A (2)", "Keyplan - A (1) (1)", "Level 1">>

SheetNumberPool == <<"101", "101-copy", "101-copy2", "101-copy-copy", "102">>

BaseViewNames == {"Keyplan - A", "Keyplan - A (1)", "Keyplan - B"}

BaseSheetNumbers == {"", "101", "101-copy", "103"}

\* the elements of a document whose names are the pool's entries picked by S
ViewsNamed(S) == {[Id |-> i, Name |-> ViewNamePool[i]] : i \in S}

SheetsNumbered(S) ==
    {[Id |-> 100 + i, SheetNumber |-> SheetNumberPool[i], Name |-> "Sheet"] : i \in S}

InitNames ==
    /\ elements = ElementTable
    /\ views \in {ViewsNamed(S) : S \in SUBSET DOMAIN ViewNamePool}
    /\ sheets \in {SheetsNumbered(S) : S \in SUBSET DOMAIN SheetNumberPool}
    /\ NoRun
    /\ NoHelperCall

CallUniqueViewName ==
    \E base_name \in BaseViewNames :
        /\ call' = [fn |-> "unique_view_name", base |-> base_name]
        /\ ret' = unique_view_name(base_name)
        /\ UNCHANGED <<views, sheets, elements, boundary>>
        /\ UNCHANGED runVars

CallUniqueSheetNumber ==
    \E base_number \in BaseSheetNumbers :
        /\ call' = [fn |-> "unique_sheet_number", base |-> base_number]
        /\ ret' = unique_sheet_number(base_number)
        /\ UNCHANGED <<views, sheets, elements, boundary>>
        /\ UNCHANGED runVars

NextNames == CallUniqueViewName \/ CallUniqueSheetNumber

SpecNames == InitNames /\ [][NextNames]_vars

\* C1: unique_view_name, and unique_sheet_number with a non-empty base, never
\* return a name that is in the existing set read from the document.
C1_GeneratedNameIsFree ==
    /\ call.fn = "unique_view_name" => ret \notin ExistingViewNames
    /\ (call.fn = "unique_sheet_number" /\ call.base # "") => ret \notin ExistingSheetNumbers

\* C1 witness: a call whose base and first candidates are all taken has returned.
C1_Witness ==
    \/ /\ call.fn = "unique_view_name"
       /\ call.base = "Keyplan - A"
       /\ {"Keyplan - A", "Keyplan - A (1)", "Keyplan - A (2)"} \subseteq ExistingViewNames
       /\ ret = "Keyplan - A (3)"
    \/ /\ call.fn = "unique_sheet_number"
       /\ call.base = "101"
       /\ {"101", "101-copy"} \subseteq ExistingSheetNumbers
       /\ ret = "101-copy2"

\* value is the first of candidate(1), candidate(2), ... that is not in
\* existing, found within Cardinality(existing) + 1 steps
FirstFree(value, Candidate(_), existing) ==
    \E k \in 1..(Cardinality(existing) + 1) :
        /\ value = Candidate(k)
        /\ Candidate(k) \notin existing
        /\ \A j \in 1..(k - 1) : Candidate(j) \in existing

\* C22: unique_view_name returns the base name when it is free and otherwise
\* "<base> (k)" for the smallest k >= 1 that is free; unique_sheet_number
\* returns "" for an empty base, the base when it is free, and otherwise the
\* first free candidate in the order <base>-copy, <base>-copy2, ...; both
\* return after at most one candidate more than there are existing values.
C22_FirstFreeCandidate ==
    /\ call.fn = "unique_view_name" =>
           IF call.base \notin ExistingViewNames
           THEN ret = call.base
           ELSE FirstFree(ret, LAMBDA k : ViewCandidate(call.base, k), ExistingViewNames)
    /\ call.fn = "unique_sheet_number" =>
           IF call.base = "" THEN ret = ""
           ELSE IF call.base \notin ExistingSheetNumbers THEN ret = call.base
           ELSE FirstFree(ret, LAMBDA k : SheetCandidate(call.base, k), ExistingSheetNumbers)

\* a candidate that is itself a base was skipped: the base and its first
\* candidate are taken, and the candidate's own first candidate is taken too
C22_Witness ==
    /\ call.fn = "unique_view_name"
    /\ call.base = "Keyplan - A (1)"
    /\ {"Keyplan - A (1)", "Keyplan - A (1) (1)"} \subseteq ExistingViewNames
    /\ ret = "Keyplan - A (1) (2)"

(***************************************************************************)
(* Specification SpecGeom: the geometry helpers called on boundaries made  *)
(* of up to MaxLoops loops: every triangle over GeomPoints in both         *)
(* directions (equal absolute areas), degenerate ones with repeated        *)
(* vertices, the loop without curves, loops with tessellated arcs and      *)
(* loops whose curves do not join.                                         *)
(***************************************************************************)

MaxLoops == 2

GeomPoints == {<<0, 0>>, <<3, 0>>, <<0, 1>>, <<2, 2>>}

LoopPool ==
    {<<>>}
        \cup {Polygon(<<a, b, c>>) : a, b, c \in GeomPoints}
        \cup { <<(<<(<<0, 0>>), (<<2, 0>>), (<<3, 0>>)>>), (<<(<<3, 0>>), (<<2, 2>>), (<<0, 0>>)>>)>>,
               <<(<<(<<0, 0>>), (<<3, 0>>)>>), (<<(<<2, 2>>), (<<0, 0>>)>>)>>,
               <<(<<(<<0, 0>>), (<<3, 0>>)>>), (<<(<<3, 0>>), (<<2, 2>>)>>), (<<(<<0, 1>>), (<<0, 0>>)>>)>> }

Boundaries == UNION {[1..n -> LoopPool] : n \in 0..MaxLoops}

InitGeom ==
    /\ elements = ElementTable
    /\ views = {}
    /\ sheets = {}
    /\ NoRun
    /\ boundary \in Boundaries
    /\ call = NoCall
    /\ ret = None

CallGetOuterBoundaryLoop ==
    /\ call.fn = None
    /\ call' = [fn |-> "get_outer_boundary_loop"]
    /\ ret' = get_outer_boundary_loop(boundary)
    /\ UNCHANGED <<views, sheets, elements, boundary>>
    /\ UNCHANGED runVars

NextGeom == CallGetOuterBoundaryLoop

SpecGeom == InitGeom /\ [][NextGeom]_vars

\* the loops of the boundary with the maximum absolute shoelace area
MaxAreaLoops ==
    {k \in DOMAIN boundary :
        \A j \in DOMAIN boundary :
            Abs(curve_loop_area_xy(boundary[j])) <= Abs(curve_loop_area_xy(boundary[k]))}

FirstMaxAreaLoop == CHOOSE k \in MaxAreaLoops : \A j \in MaxAreaLoops : k <= j

\* C10: get_outer_boundary_loop returns no loop for an area without boundary
\* loops; a loop it returns is made of the curves of the first loop whose
\* absolute shoelace area is the maximum over all loops; it returns no loop
\* otherwise only when that loop has no curves or its curves do not join.
C10_OuterLoopIsFirstMaxArea ==
    call.fn = "get_outer_boundary_loop" =>
        /\ boundary = <<>> => ret = NoLoop
        /\ ret.ok => ret.curves = boundary[FirstMaxAreaLoop]
        /\ (boundary # <<>> /\ ~ret.ok) =>
               \/ boundary[FirstMaxAreaLoop] = <<>>
               \/ AppendRaises(boundary[FirstMaxAreaLoop], 1)

\* C10 witness: two loops of equal absolute area that differ (opposite
\* directions) follow a smaller one, and the first of the two was returned.
C10_Witness ==
    /\ call.fn = "get_outer_boundary_loop"
    /\ Len(boundary) = 2
    /\ boundary[1] # boundary[2]
    /\ Abs(curve_loop_area_xy(boundary[1])) = Abs(curve_loop_area_xy(boundary[2]))
    /\ curve_loop_area_xy(boundary[1]) = 6
    /\ ret.ok
    /\ ret.curves = boundary[1]

(***************************************************************************)
(* Specification SpecRun: one run of the keyplan or the marketing script,  *)
(* from main()'s first line to its last, on documents in which the names   *)
(* and numbers the scripts generate are partly taken.  The user picks any  *)
(* list of up to MaxAreas distinct areas, any number of times, and sets    *)
(* the controls that decide what is created (RunControls); the host        *)
(* accepts or refuses loops as AreaTable says, may refuse a sheet number   *)
(* or name, and may raise from any call of the loop body.                  *)
(***************************************************************************)

MaxAreas == 2

\* the lists pick_elements can return: distinct areas in the order picked,
\* here picked by ascending or by descending element id
PickLists ==
    {p \in UNION {[1..n -> AreaIds] : n \in 0..MaxAreas} :
        \/ \A i, j \in DOMAIN p : i < j => p[i] < p[j]
        \/ \A i, j \in DOMAIN p : i < j => p[i] > p[j]}

GoodLibrary(rotation) ==
    [isPlan |-> TRUE, templates |-> <<11, 12>>, fillTypes |-> <<21, 22>>,
     titleblocks |-> <<31, 32>>, rotation |-> rotation]

RunLibraries ==
    {GoodLibrary("crop element"),
     [GoodLibrary("crop element") EXCEPT !.isPlan = FALSE],
     [GoodLibrary("crop element") EXCEPT !.templates = <<>>],
     [GoodLibrary("crop element") EXCEPT !.fillTypes = <<>>],
     [GoodLibrary("crop element") EXCEPT !.titleblocks = <<>>]}

PlainView(id, name) ==
    [Id |-> id, Name |-> name, Template |-> NoId, Crop |-> "none", Fill |-> "none",
     Rotated |-> FALSE]

PlainSheet(id, number, name) ==
    [Id |-> id, SheetNumber |-> number, Name |-> name, Titleblock |-> 31, Viewports |-> {}]

\* the documents a run starts from: view names pairwise distinct, sheet
\* numbers pairwise distinct
RunDocuments ==
    {[views |-> {PlainView(BaseViewId, BaseViewName)}, sheets |-> {}],
     [views |-> {PlainView(BaseViewId, BaseViewName), PlainView(51, "Marketing - A"),
                 PlainView(52, "Keyplan - 101"), PlainView(53, "Keyplan - A (1)"),
                 PlainView(54, "Level 1 Copy 1")},
      sheets |-> {PlainSheet(101, "101", "A"), PlainSheet(102, "101-copy", "A copy"),
                  PlainSheet(103, "S1", "Cover")}]}

RunControls == {"keyplan", "overwrite", "number_param"}

InitRun ==
    /\ script \in {"keyplan", "marketing", "copy"}
    /\ pc = "start"
    /\ library \in RunLibraries
    /\ script = "copy" => library = GoodLibrary("crop element")
    /\ \E d \in RunDocuments : views = d.views /\ sheets = d.sheets
    /\ nextId = 200
    /\ config = UnsetConfig
    /\ state = IdleState
    /\ form = NoForm
    /\ dialogResult = None
    /\ sel = NoSel
    /\ pos = 0
    /\ cur = NoCur
    /\ results = <<>>
    /\ txn = "none"
    /\ alert = NoAlert
    /\ hist = NoHist
    /\ elements = ElementTable
    /\ copy = NoCopy
    /\ NoHelperCall

UserSelectsRun ==
    /\ pc = "dialog"
    /\ \E c \in RunControls : \E v \in ControlValues(c) : UserSelects(c, v)

PickAreasRun ==
    /\ pc = "closed"
    /\ \E picked \in PickLists : PickAreas(picked)

MarketingSheetRun ==
    /\ pc = "m_sheet"
    /\ \E numberRaises, nameRaises \in BOOLEAN : MarketingSheet(numberRaises, nameRaises)

MaxElements == 2

\* the selections get_selected_elements can return
ElementLists ==
    {p \in UNION {[1..n -> ElementIds] : n \in 0..MaxElements} :
        \A i, j \in DOMAIN p : i # j => p[i] # p[j]}

FindTexts == {<<>>, <<"a">>, <<"a", "b">>}

ReplaceTexts == {<<>>, <<"x">>}

CopyStartRun ==
    /\ pc = "start"
    /\ \E selection \in ElementLists : CopyStart(selection)

CopyDialogDoneRun ==
    /\ pc = "c_dialog"
    /\ \E source_param, target_param \in ParamChoices :
           \E find_text \in FindTexts, replace_text \in ReplaceTexts :
               CopyDialogDone(source_param, target_param, find_text, replace_text)

NextRun ==
    \/ PreconditionAlert
    \/ RestoreAndShow
    \/ UserSelectsRun
    \/ OnPickArea
    \/ OnCreate
    \/ OnCancel
    \/ PickAreasRun
    \/ PickCancelled
    \/ MainCancel
    \/ MainConfirm
    \/ EnterTransaction
    \/ KeyplanAreaStart
    \/ KeyplanName
    \/ KeyplanFill
    \/ MarketingAreaStart
    \/ MarketingView
    \/ MarketingKeyplan
    \/ MarketingKeyplanFill
    \/ MarketingSheetRun
    \/ MarketingPlace
    \/ ExceptionEscapes
    \/ ExitTransaction
    \/ ShowSummary
    \/ CopyStartRun
    \/ CopyDialogCancelled
    \/ CopyDialogDoneRun
    \/ CopyTransactionStart
    \/ CopyElement
    \/ CopyTransactionCommit
    \/ CopyResults

SpecRun == InitRun /\ [][NextRun]_vars

(***************************************************************************)
(* Properties of one run (SpecRun)                                         *)
(***************************************************************************)

\* C2: starting from a document whose view names are pairwise distinct and
\* whose sheet numbers are pairwise distinct, the view names and the sheet
\* numbers of the document stay pairwise distinct while and after a script
\* processes any list of areas, with shared labels and numbers, with
\* overwrite on or off.
C2_NamesStayDistinct ==
    /\ \A v, w \in views : v.Name = w.Name => v.Id = w.Id
    /\ \A s, t \in sheets : s.SheetNumber = t.SheetNumber => s.Id = t.Id

\* two areas with the same name and number were processed, overwrite off, and
\* the sheet number was already taken, as was its first copy
C2_Witness ==
    /\ pc = "done"
    /\ txn = "committed"
    /\ sel.areas = <<1, 2>>
    /\ ~sel.chosen.overwrite
    /\ \E s \in sheets : s.SheetNumber = "101-copy3"
    /\ \E v \in views : v.Name = "Marketing - A - copy (1)"

\* C3: every step that changes the document (views, sheets, element
\* parameters) is taken while the run's transaction is open, and a run starts
\* at most one transaction.
C3_MutationsInsideOneTransaction ==
    [][/\ (views' # views \/ sheets' # sheets \/ elements' # elements) => txn = "open"
       /\ hist'.txns <= 1]_vars

C3_Witness ==
    /\ pc = "done"
    /\ txn = "committed"
    /\ hist.txns = 1
    /\ views # hist.before.views
    /\ sheets # hist.before.sheets

\* C4: when the active view is no plan view, or there are no view templates,
\* no filled region types or (marketing script) no titleblock types, the run
\* shows an alert and ends: no dialog is shown, no config saved, no
\* transaction started.
C4_FailedPreconditionEndsRun ==
    (/\ IsViewScript
     /\ \/ ~library.isPlan
        \/ library.templates = <<>>
        \/ library.fillTypes = <<>>
        \/ script = "marketing" /\ library.titleblocks = <<>>)
    => /\ pc \in {"start", "done"}
       /\ pc = "done" => alert.kind = "message" /\ alert.text # ""
       /\ ~hist.shown
       /\ hist.saves = 0
       /\ config = UnsetConfig
       /\ hist.txns = 0
       /\ txn = "none"

C4_Witness ==
    /\ script = "marketing"
    /\ library.titleblocks = <<>>
    /\ pc = "done"
    /\ alert = Message("No titleblock types found.")

\* C5: when an exception escapes the transaction block while the k-th area
\* is processed, the views and sheets of the document are those the document
\* had before the run.
C5_EscapedExceptionRollsBack ==
    txn = "rolled back" =>
        /\ views = hist.before.views
        /\ sheets = hist.before.sheets
        /\ \E d \in RunDocuments : views = d.views /\ sheets = d.sheets

\* the exception escaped while the second area was processed, after elements
\* had been created for the first
C5_Witness ==
    /\ txn = "rolled back"
    /\ pos = 2
    /\ nextId > 202
    /\ script = "marketing"

\* C9: in every run that reaches the final alert each selected area has
\* exactly one result, which is in the created list or in the failed list and
\* not in both; created + failed is the number of areas (a failed area does
\* not stop the later ones); the alert lists each distinct warning once.
C9_OneResultPerArea ==
    alert.kind = "summary" =>
        /\ Len(results) = Len(sel.areas)
        /\ \A i \in DOMAIN results : results[i].area = sel.areas[i]
        /\ \A i \in DOMAIN results :
               (\E j \in DOMAIN alert.created : alert.created[j].area = sel.areas[i])
                   # (\E j \in DOMAIN alert.failed : alert.failed[j].area = sel.areas[i])
        /\ Len(alert.created) + Len(alert.failed) = Len(sel.areas)
        /\ \A i, j \in DOMAIN alert.warnings :
               alert.warnings[i] = alert.warnings[j] => i = j
        /\ Range(alert.warnings) = UNION {Range(results[i].warnings) : i \in DOMAIN results}

\* the first area failed and the second was created
C9_Witness ==
    /\ alert.kind = "summary"
    /\ Len(sel.areas) = 2
    /\ results[1].failed
    /\ ~results[2].failed
    /\ Len(alert.created) = 1
    /\ Len(alert.failed) = 1

\* C11: in the keyplan and in the marketing script, an area whose outer
\* boundary loop cannot be built (get_outer_boundary_loop returns no loop)
\* but which has a bounding box in the base view is processed with the
\* bounding-box rectangle as its loop, and its result is not a failed one.
C11_BoundingBoxFallback ==
    \A i \in DOMAIN results :
        (/\ ~get_outer_boundary_loop(AreaTable[results[i].area].loops).ok
         /\ AreaTable[results[i].area].bbox)
            => ~results[i].failed

\* the marketing script has processed an area without a boundary loop that has
\* a bounding box
C11_Witness ==
    /\ script = "marketing"
    /\ \E i \in DOMAIN results :
           /\ ~get_outer_boundary_loop(AreaTable[results[i].area].loops).ok
           /\ AreaTable[results[i].area].bbox

\* the calls of one host operation made for the current area, in order
AttemptsOf(op) == SelectSeq(cur.attempts, LAMBDA a : a.op = op)

\* the warning the scripts add when the last call of a cascade has failed
FailureWarning(op) ==
    IF op = "crop" THEN "Area crop loop was discontinuous; crop not set."
    ELSE IF script = "keyplan" THEN "Filled region could not be created."
    ELSE "Keyplan fill loop was discontinuous; fill not created."

\* the warning is among those collected for the current area, and among those
\* of the area's result once the result is appended
WarningRecorded(w) ==
    /\ script = "marketing" => w \in Range(cur.create_errors)
    /\ \A i \in DOMAIN results :
           (/\ ~results[i].failed
            /\ results[i].keyplan_view = cur.keyplan_view
            /\ results[i].marketing_view = cur.marketing_view)
               => w \in Range(results[i].warnings)
    /\ script = "keyplan" =>
           \E i \in DOMAIN results : results[i].keyplan_view = cur.keyplan_view

\* at most two calls, the second only after a failed first and with the
\* bounding-box rectangle, a failed last call recorded as a warning
AtMostTwoAttempts(op) ==
    /\ Len(AttemptsOf(op)) <= 2
    /\ Len(AttemptsOf(op)) = 2 =>
           /\ ~AttemptsOf(op)[1].ok
           /\ AttemptsOf(op)[2].loop = "box"
    /\ (Len(AttemptsOf(op)) >= 1 /\ ~AttemptsOf(op)[Len(AttemptsOf(op))].ok) =>
           WarningRecorded(FailureWarning(op))

SourceBefore(i) == ElementTable[copy.elements[i]][copy.source_param]

\* the target parameter of the i-th selected element
TargetNow(i) == elements[copy.elements[i]][copy.target_param]

\* C19: for every selected element counted as successful by the parameter
\* copy utility, the target parameter's value equals the source parameter's
\* value with every occurrence of the find text replaced by the replace text,
\* and the source parameter's value unchanged when the find text is empty,
\* also when the source parameter exists but holds no value.
C19_TargetIsTransformedSource ==
    script = "copy" =>
        \A i \in DOMAIN copy.counted :
            copy.counted[i] = "success" =>
                /\ TargetNow(i).null = SourceBefore(i).null
                /\ TargetNow(i).value =
                       IF copy.find_text = <<>>
                       THEN SourceBefore(i).value
                       ELSE replace(SourceBefore(i).value, copy.find_text, copy.replace_text)

\* an element whose source parameter holds no value was counted as
\* successful with an empty find text
C19_Witness ==
    /\ script = "copy"
    /\ copy.find_text = <<>>
    /\ \E i \in DOMAIN copy.counted :
           /\ copy.counted[i] = "success"
           /\ SourceBefore(i).exists
           /\ SourceBefore(i).null

SheetOf(S, id) == CHOOSE s \in S : s.Id = id

\* the name is base or "base (k)"
NamedFrom(name, base) ==
    name = base \/ \E k \in 1..(Cardinality(views) + Cardinality(sheets) + 2) :
                       name = ViewCandidate(base, k)

C23_CreatedSheetsExist ==
    (script = "marketing" /\ alert.kind = "summary") =>
        \A i \in DOMAIN alert.created : \E s \in sheets : s.Id = alert.created[i].sheet

\* the final alert of a run with overwrite on over two areas that resolve to
\* the same sheet number, both created
C23_Witness ==
    /\ script = "marketing"
    /\ alert.kind = "summary"
    /\ sel.chosen.overwrite
    /\ Len(alert.created) = 2
    /\ MarketingSheetNumber(sel.areas[1]) = MarketingSheetNumber(sel.areas[2])

\* C24: an area that is reported as failed leaves the document unchanged: the
\* step that reports it is the first of the area's iteration and changes no
\* view and no sheet (no view duplicated or renamed, no sheet created and, in
\* the marketing script with overwrite on, the sheet with the area's sheet
\* number not deleted).
C24_FailedAreaChangesNothing ==
    [][(IsViewScript /\ Len(results') = Len(results) + 1 /\ results'[Len(results')].failed) =>
           /\ pc = "area"
           /\ results'[Len(results')].area = CurrentArea
           /\ views' = views
           /\ sheets' = sheets
           /\ nextId' = nextId]_vars

\* with overwrite on, an area whose sheet number is carried by a sheet of the
\* document was reported as failed, and that sheet is still there
C24_Witness ==
    /\ script = "marketing"
    /\ sel.chosen.overwrite
    /\ pc = "area"
    /\ pos = 2
    /\ Len(results) = 1
    /\ results[1].failed
    /\ ExistingSheet(MarketingSheetNumber(sel.areas[1])) # NoId
    /\ sheets = hist.before.sheets
    /\ views = hist.before.views

\* the messages rotate_view_to_door and main give for a view left unrotated
RotationMessages ==
    {"No entry door found for this area.", "Door facing vector is zero.",
     "Computed rotation angle is near zero.", "Rotated.",
     "View rotation parameter is read-only and no crop element found.",
     "No crop element found and view rotation parameter is unavailable or read-only."}

HasRotationWarning(r) ==
    \E m \in RotationMessages : "Rotation failed: " \o m \in Range(r.warnings)

\* the door's facing vector points along the reference +Y axis
FacesReferenceAxis(door) ==
    door # NoId /\ DoorFacing[door][1] = 0 /\ DoorFacing[door][2] > 0

\* the marketing view created for the result has been rotated
ResultViewRotated(r) == \E v \in views : v.Id = r.marketing_view /\ v.Rotated

\* C27: the marketing script adds a "Rotation failed" warning for an area
\* exactly when the created marketing view is not already oriented to the
\* entry door and could not be rotated to it; a view whose entry door already
\* faces the reference +Y axis gets no rotation warning.
C27_RotationWarningOnlyOnFailure ==
    script = "marketing" =>
        \A i \in DOMAIN results :
            ~results[i].failed =>
                (HasRotationWarning(results[i])
                    <=> (/\ ~FacesReferenceAxis(BaseViewEntryDoor[results[i].area])
                         /\ ~ResultViewRotated(results[i])))

\* a marketing view was created for an area whose entry door faces +Y
C27_Witness ==
    /\ script = "marketing"
    /\ \E i \in DOMAIN results :
           /\ ~results[i].failed
           /\ FacesReferenceAxis(BaseViewEntryDoor[results[i].area])
           /\ results[i].marketing_view # NoId

\* the config holds the selections the confirmed run works with
SelectionsPersisted ==
    /\ hist.saves = 1
    /\ config.last_area_id = (IF sel.areas # <<>> THEN sel.areas[1] ELSE NoId)
    /\ config.last_keyplan_template_id = sel.chosen.keyplan_template
    /\ config.last_fill_type_id = sel.chosen.fill_type
    /\ script = "marketing" =>
           /\ config.last_template_id = sel.chosen.template
           /\ config.last_titleblock_id = sel.chosen.titleblock
           /\ config.last_sheet_number_param = sel.chosen.sheet_number_param
           /\ config.last_sheet_name_param = sel.chosen.sheet_name_param
           /\ config.last_overwrite_existing = sel.chosen.overwrite
           /\ config.last_keyplan_enabled = sel.chosen.create_keyplan

\* C28: in a confirmed run of the keyplan or the marketing script the
\* last-used selections are written and saved to the config before the
\* transaction starts, so the config holds them while the transaction is open
\* and after it, also when it was rolled back; no step writes or saves the
\* config once the transaction has started.
C28_ConfigSavedBeforeTransaction ==
    [][IsViewScript =>
           /\ (config' # config \/ hist'.saves # hist.saves) =>
                  (txn = "none" /\ txn' = "none")
           /\ txn' # "none" => SelectionsPersisted']_vars

\* the transaction of a confirmed marketing run was rolled back and the
\* config holds the run's selections
C28_Witness ==
    /\ script = "marketing"
    /\ txn = "rolled back"
    /\ config # UnsetConfig
    /\ config.last_area_id = 2
    /\ config.last_overwrite_existing
    /\ SelectionsPersisted

\* the result message of the parameter copy utility is about to be shown or
\* has been shown
AtResultMessage ==
    /\ script = "copy"
    /\ \/ pc = "c_alert"
       \/ /\ pc = "done"
          /\ txn = "committed"

\* C29: in every run of the parameter copy utility that reaches the result
\* message, the success count plus the failed count is the number of selected
\* elements, and every element counted as failed (no source parameter, no
\* target parameter, a read-only target parameter, a set that raised) has its
\* target parameter as it was before the run.
C29_CountsAddUpAndFailedUnchanged ==
    AtResultMessage =>
        /\ copy.success_count + copy.error_count = Len(copy.elements)
        /\ Len(copy.counted) = Len(copy.elements)
        /\ copy.error_count = Cardinality({i \in DOMAIN copy.counted : copy.counted[i] # "success"})
        /\ \A i \in DOMAIN copy.counted :
               copy.counted[i] # "success" =>
                   TargetNow(i) = ElementTable[copy.elements[i]][copy.target_param]

\* the result message reports one success and one failure: the first element
\* was set, the second has no source parameter
C29_Witness ==
    /\ AtResultMessage
    /\ pc = "done"
    /\ copy.success_count = 1
    /\ copy.error_count = 1
    /\ copy.counted = <<"success", "no source">>
    /\ TargetNow(1) # ElementTable[copy.elements[1]][copy.target_param]
    /\ TargetNow(2) = ElementTable[copy.elements[2]][copy.target_param]

\* the open dialog has no area or lacks a choice the script needs
CreateIncomplete ==
    IF script = "marketing"
    THEN \/ form.selected_area = NoId /\ state.areas = <<>>
         \/ form.template < 0
         \/ form.titleblock < 0
         \/ form.number_param = None
         \/ form.name_param = None
         \/ form.keyplan /\ (form.keyplan_template < 0 \/ form.fill < 0)
    ELSE \/ state.areas = <<>>
         \/ form.keyplan_template < 0
         \/ form.fill < 0

\* the alerts of _on_create
CreateAlerts ==
    {Message(text) : text \in {"Please pick at least one area.",
                               "Please select sheet parameter mappings.",
                               "Please select a marketing view template.",
                               "Please select a titleblock.",
                               "Please select a keyplan view template.",
                               "Please select a keyplan filled region type."}}

\* the run works on at least one area with every choice its script needs
RunIsComplete ==
    /\ sel.areas # <<>>
    /\ \A i \in DOMAIN sel.areas : sel.areas[i] \in AreaIds
    /\ IF script = "marketing"
       THEN /\ sel.chosen.template \in Range(library.templates)
            /\ sel.chosen.titleblock \in Range(library.titleblocks)
            /\ sel.chosen.sheet_number_param \in Range(get_parameter_names(sel.areas[1]))
            /\ sel.chosen.sheet_name_param \in Range(get_parameter_names(sel.areas[1]))
            /\ sel.chosen.create_keyplan =>
                   /\ sel.chosen.keyplan_template \in Range(library.templates)
                   /\ sel.chosen.fill_type \in Range(library.fillTypes)
       ELSE /\ sel.chosen.keyplan_template \in Range(library.templates)
            /\ sel.chosen.fill_type \in Range(library.fillTypes)

\* C30: the creation transaction of the keyplan and marketing scripts runs
\* only with at least one selected area and with the choices the script needs
\* (keyplan: view template and fill type; marketing: view template,
\* titleblock, both sheet parameter names, and keyplan template and fill type
\* when a keyplan is asked for).  A dialog without an area or without one of
\* these choices is never closed as confirmed: pressing Create shows one of the
\* alerts of _on_create and leaves the dialog open as it is.
C30_CreateOnlyWhenComplete ==
    [][IsViewScript =>
           /\ (pc = "dialog" /\ CreateIncomplete) =>
                  /\ ~(pc' = "closed" /\ dialogResult' = "OK")
                  /\ (pc' = "dialog" /\ form' = form) =>
                         /\ alert' \in CreateAlerts
                         /\ state' = state
                         /\ dialogResult' = dialogResult
           /\ txn' # "none" => RunIsComplete']_vars

\* Create was pressed without an area and refused with the alert; after a
\* pick the dialog was confirmed and the transaction runs on the picked area
C30_Witness ==
    /\ script = "keyplan"
    /\ txn = "open"
    /\ alert = Message("Please pick at least one area.")
    /\ hist.pick = "returned"
    /\ sel.areas = <<1>>
    /\ RunIsComplete

(***************************************************************************)
(* Specification SpecDialog: up to MaxRuns runs of the keyplan or the      *)
(* marketing script, one after the other, on a document whose templates,   *)
(* fill types, titleblocks and areas stay as they are.  The user changes   *)
(* any control of the dialog; the config the first run finds is unset or   *)
(* holds ids that resolve to nothing (or to an element of another          *)
(* category).                                                              *)
(***************************************************************************)

\* a config whose ids no longer resolve: 41 is a door, 99 no element
StaleConfig ==
    [last_area_id |-> 41, last_door_id |-> 99, last_template_id |-> 99,
     last_titleblock_id |-> 99, last_sheet_number_param |-> "Comments",
     last_sheet_name_param |-> "Comments", last_overwrite_existing |-> TRUE,
     last_keyplan_enabled |-> TRUE, last_keyplan_template_id |-> 99,
     last_fill_type_id |-> 99]

\* a config an earlier confirmed run of the marketing script saved
LastConfig ==
    [last_area_id |-> 1, last_door_id |-> 41, last_template_id |-> 12,
     last_titleblock_id |-> 32, last_sheet_number_param |-> "Number",
     last_sheet_name_param |-> "Name", last_overwrite_existing |-> FALSE,
     last_keyplan_enabled |-> TRUE, last_keyplan_template_id |-> 12,
     last_fill_type_id |-> 22]

DialogConfigs == {UnsetConfig, StaleConfig, LastConfig}

DialogPicks == {<<>>, <<1>>, <<3, 1>>}

InitDialog ==
    /\ script \in {"keyplan", "marketing"}
    /\ pc = "start"
    /\ library = GoodLibrary("crop element")
    /\ views = {PlainView(BaseViewId, BaseViewName), PlainView(51, "Marketing - A")}
    /\ sheets = {PlainSheet(101, "101", "A")}
    /\ nextId = 200
    /\ config \in DialogConfigs
    /\ state = IdleState
    /\ form = NoForm
    /\ dialogResult = None
    /\ sel = NoSel
    /\ pos = 0
    /\ cur = NoCur
    /\ results = <<>>
    /\ txn = "none"
    /\ alert = NoAlert
    /\ hist = NoHist
    /\ elements = ElementTable
    /\ copy = NoCopy
    /\ NoHelperCall

\* the user changes controls and picks areas in the first run; a later run is
\* confirmed or cancelled as its dialog opens
UserSelectsDialog ==
    /\ hist.run = 1
    /\ \E c \in MarketingControls \cup KeyplanControls :
           \E v \in ControlValues(c) : UserSelects(c, v)

OnPickAreaDialog == hist.run = 1 /\ OnPickArea

PickAreasDialog ==
    /\ pc = "closed"
    /\ \E picked \in DialogPicks : PickAreas(picked)

MarketingSheetDialog == MarketingSheet(FALSE, FALSE)

NextDialog ==
    \/ RestoreAndShow
    \/ UserSelectsDialog
    \/ OnPickAreaDialog
    \/ OnCreate
    \/ OnCancel
    \/ PickAreasDialog
    \/ PickCancelled
    \/ MainCancel
    \/ MainConfirm
    \/ EnterTransaction
    \/ KeyplanAreaStart
    \/ KeyplanName
    \/ KeyplanFill
    \/ MarketingAreaStart
    \/ MarketingView
    \/ MarketingKeyplan
    \/ MarketingKeyplanFill
    \/ MarketingSheetDialog
    \/ MarketingPlace
    \/ ExceptionEscapes
    \/ ExitTransaction
    \/ ShowSummary
    \/ RunAgain

SpecDialog == InitDialog /\ [][NextDialog]_vars

(***************************************************************************)
(* Properties of the dialog loop and of consecutive runs (SpecDialog)      *)
(***************************************************************************)

\* C6: each showing of the dialog ends in exactly one of OK, Retry and
\* Cancel; after Retry the dialog is shown again, the dialog loop is left
\* only on OK or Cancel, and on Cancel the run ends with no config written
\* and no transaction started.
C6_DialogEndsOneWay ==
    [][/\ (pc = "dialog" /\ pc' # "dialog") =>
              (pc' = "closed" /\ dialogResult' \in {"OK", "Retry", "Cancel"})
       /\ (pc = "closed" /\ pc' # "closed") =>
              \/ dialogResult = "Retry" /\ pc' = "dialog"
              \/ dialogResult = "OK" /\ pc' = "confirmed"
              \/ /\ dialogResult = "Cancel"
                 /\ pc' = "done"
                 /\ config' = config
                 /\ hist'.saves = 0
                 /\ hist'.txns = 0
                 /\ txn' = "none"]_vars

\* the dialog was cancelled after a re-pick
C6_Witness ==
    /\ pc = "done"
    /\ dialogResult = "Cancel"
    /\ hist.picks = 1
    /\ hist.saves = 0

\* C7: when the user cancels the area pick after Retry, the selected areas,
\* the area label and (marketing script) the door and the sheet number and
\* sheet name parameter names in `state` are what they were before the pick,
\* and the dialog is shown again.
C7_CancelledPickKeepsState ==
    [][(pc = "closed" /\ dialogResult = "Retry" /\ hist'.pick = "cancelled") =>
           /\ state'.areas = state.areas
           /\ state'.area = state.area
           /\ state'.area_label = state.area_label
           /\ state'.door = state.door
           /\ state'.sheet_number_param = state.sheet_number_param
           /\ state'.sheet_name_param = state.sheet_name_param
           /\ pc' = "dialog"
           /\ hist'.shown]_vars

C7_Witness ==
    /\ script = "marketing"
    /\ pc = "dialog"
    /\ hist.pick = "cancelled"
    /\ hist.changes = 0
    /\ state.areas = <<1>>
    /\ state.door = 41
    /\ state.sheet_number_param = "Number"
    /\ state.sheet_name_param = "Number"

\* the dialog as the run opens it first
FirstShowing == pc = "dialog" /\ hist.picks = 0 /\ hist.changes = 0

\* C8: after a confirmed run the next run opens its dialog with what the
\* confirmed run used: the first selected area, the keyplan template and the
\* fill type (when a keyplan was created), and in the marketing script the
\* view template, the titleblock, the sheet number and sheet name parameter
\* names and the overwrite and create-keyplan checkboxes.  A saved id that
\* does not resolve gives index 0, or no area.
C8_NextRunPreselects ==
    FirstShowing =>
        /\ hist.prev # NoSel =>
               /\ state.areas = <<hist.prev.areas[1]>>
               /\ hist.prev.chosen.keyplan_template # NoId =>
                      library.templates[form.keyplan_template + 1]
                          = hist.prev.chosen.keyplan_template
               /\ hist.prev.chosen.fill_type # NoId =>
                      library.fillTypes[form.fill + 1] = hist.prev.chosen.fill_type
               /\ script = "marketing" =>
                      /\ form.selected_area = hist.prev.areas[1]
                      /\ library.templates[form.template + 1] = hist.prev.chosen.template
                      /\ library.titleblocks[form.titleblock + 1] = hist.prev.chosen.titleblock
                      /\ form.number_param = hist.prev.chosen.sheet_number_param
                      /\ form.name_param = hist.prev.chosen.sheet_name_param
                      /\ form.overwrite = hist.prev.chosen.overwrite
                      /\ form.keyplan = hist.prev.chosen.create_keyplan
        /\ config.last_area_id \notin AreaIds =>
               state.areas = <<>> /\ form.selected_area = NoId
        /\ config.last_keyplan_template_id \notin Range(library.templates) =>
               form.keyplan_template = 0
        /\ config.last_fill_type_id \notin Range(library.fillTypes) => form.fill = 0
        /\ script = "marketing" =>
               /\ config.last_template_id \notin Range(library.templates) => form.template = 0
               /\ config.last_titleblock_id \notin Range(library.titleblocks) =>
                      form.titleblock = 0

\* the second run opens with the non-default choices the first run was
\* confirmed with
C8_Witness ==
    /\ FirstShowing
    /\ hist.run = 2
    /\ script = "marketing"
    /\ hist.prev.areas = <<3, 1>>
    /\ hist.prev.chosen.fill_type = 22
    /\ hist.prev.chosen.template = 12
    /\ hist.prev.chosen.overwrite
    /\ form.fill = 1
    /\ form.template = 1
    /\ form.overwrite
    /\ form.keyplan

\* the choices of the dialog a re-pick is to keep
KeptChoices(f) ==
    IF script = "marketing"
    THEN <<f.template, f.keyplan_template, f.fill, f.titleblock, f.number_param,
           f.name_param, f.keyplan, f.overwrite>>
    ELSE <<f.keyplan_template, f.fill>>

\* the dialog is shown again after Pick Area(s)
ReopensAfterPick == pc = "closed" /\ dialogResult = "Retry" /\ pc' = "dialog"

\* C25: when the dialog is reopened after a re-pick of areas, every choice
\* the user had made in the dialog before pressing Pick Area(s) is still
\* selected: view template, keyplan template, fill type, titleblock, sheet
\* number and sheet name parameter names, and the create-keyplan and
\* overwrite-existing checkboxes.
C25_RepickKeepsChoices ==
    [][ReopensAfterPick => KeptChoices(form') = KeptChoices(form)]_vars

\* the marketing dialog is open again after a pick that returned areas
C25_Witness ==
    /\ script = "marketing"
    /\ pc = "dialog"
    /\ hist.pick = "returned"
    /\ hist.changes = 0
    /\ state.areas = <<3, 1>>

(***************************************************************************)
(* Viewport placement on the new sheet (MU 738-806, 1128-1185).  Bounds    *)
(* and box sizes are in sheet units; centres are in hundredths of a unit,  *)
(* so that the halves, the quarter-width offset and the 2 % margin of the  *)
(* code are whole numbers.  Viewport.Create returns the viewport and       *)
(* GetBoxOutline its outline, as the host's interface says they do.        *)
(***************************************************************************)

Min2(a, b) == IF a < b THEN a ELSE b

Max2(a, b) == IF a > b THEN a ELSE b

\* Viewport.Create(doc, sheet, view, point): a viewport of the view, its box
\* of the size the host gives it, centred on the point
Viewport(view, box, point) == [view |-> view, w |-> box.w, h |-> box.h, center |-> point]

\* _viewport_half_size(viewport), in hundredths
ViewportHalfSize(vp) == <<50 * vp.w, 50 * vp.h>>

\* a placement that sets the centre to the target as it is
ClampedCenter_Unclamped(vp, target, bounds) == target

\* the centre _clamp_viewport_center gives the viewport
ClampedCenter(vp, target, bounds) ==
    LET half_w == ViewportHalfSize(vp)[1]
        half_h == ViewportHalfSize(vp)[2]
        available_w == 100 * (bounds.max[1] - bounds.min[1])
        available_h == 100 * (bounds.max[2] - bounds.min[2])
    IN  << IF available_w < 2 * half_w
           THEN 50 * (bounds.min[1] + bounds.max[1])
           ELSE Max2(100 * bounds.min[1] + half_w,
                     Min2(target[1], 100 * bounds.max[1] - half_w)),
           IF available_h < 2 * half_h
           THEN 50 * (bounds.min[2] + bounds.max[2])
           ELSE Max2(100 * bounds.min[2] + half_h,
                     Min2(target[2], 100 * bounds.max[2] - half_h)) >>

\* _clamp_viewport_center(viewport, target_center, bounds_min, bounds_max):
\* viewport.SetBoxCenter(center)
clamp_viewport_center(vp, target, bounds) ==
    [vp EXCEPT !.center = ClampedCenter(vp, target, bounds)]

\* MU 1128-1185: the viewports of the new sheet, in the order they are
\* created.  canAdd tells what CanAddViewToSheet answers for the marketing
\* (1) and the keyplan (2) view, box the size the host gives each viewport.
PlaceViewports(bounds, create_keyplan, keyplan_view, canAdd, box) ==
    LET center == <<50 * (bounds.min[1] + bounds.max[1]), 50 * (bounds.min[2] + bounds.max[2])>>
        offset == IF create_keyplan THEN 25 * (bounds.max[1] - bounds.min[1]) ELSE 0
        margin == 2 * (bounds.max[1] - bounds.min[1])
        marketing_pt == <<center[1] - offset, center[2]>>
        keyplan_pt == <<center[1] + offset, center[2]>>
        marketing_vp == Viewport("marketing", box[1], marketing_pt)
        keyplan_vp == Viewport("keyplan", box[2], keyplan_pt)
        marketing_target ==
            <<100 * bounds.min[1] + ViewportHalfSize(marketing_vp)[1] + margin, center[2]>>
        keyplan_target ==
            <<100 * bounds.max[1] - ViewportHalfSize(keyplan_vp)[1] - margin, center[2]>>
    IN  IF ~canAdd[1]
        THEN <<>>
        ELSE IF create_keyplan /\ keyplan_view /\ canAdd[2]
             THEN <<clamp_viewport_center(marketing_vp, marketing_target, bounds),
                    clamp_viewport_center(keyplan_vp, keyplan_target, bounds)>>
             ELSE <<clamp_viewport_center(marketing_vp, marketing_pt, bounds)>>

(***************************************************************************)
(* Specification SpecPlace: one placement of the viewports of a new sheet, *)
(* for titleblock bounds and viewport boxes of the host's choosing.        *)
(***************************************************************************)

BoundsPool == {[min |-> <<0, 0>>, max |-> <<100, 50>>], [min |-> <<-20, 10>>, max |-> <<40, 40>>]}

BoxPool == [w : {10, 60, 100}, h : {10, 50, 70}]

InitPlace ==
    /\ elements = ElementTable
    /\ views = {}
    /\ sheets = {}
    /\ NoRun
    /\ boundary = <<>>
    /\ call \in [fn : {None}, bounds : BoundsPool, create_keyplan : BOOLEAN,
                 keyplan_view : BOOLEAN, canAdd : [1..2 -> BOOLEAN], box : [1..2 -> BoxPool]]
    /\ ret = None

CallPlaceViewports ==
    /\ call.fn = None
    /\ call' = [call EXCEPT !.fn = "place_viewports"]
    /\ ret' = PlaceViewports(call.bounds, call.create_keyplan, call.keyplan_view,
                             call.canAdd, call.box)
    /\ UNCHANGED <<views, sheets, elements, boundary>>
    /\ UNCHANGED runVars

NextPlace == CallPlaceViewports

SpecPlace == InitPlace /\ [][NextPlace]_vars

\* the viewport's box is no wider and no taller than the titleblock bounds
BoxFits(vp, bounds) ==
    /\ vp.w <= bounds.max[1] - bounds.min[1]
    /\ vp.h <= bounds.max[2] - bounds.min[2]

\* the viewport's whole box is inside the titleblock bounds
BoxInside(vp, bounds) ==
    /\ 100 * bounds.min[1] <= vp.center[1] - 50 * vp.w
    /\ vp.center[1] + 50 * vp.w <= 100 * bounds.max[1]
    /\ 100 * bounds.min[2] <= vp.center[2] - 50 * vp.h
    /\ vp.center[2] + 50 * vp.h <= 100 * bounds.max[2]

MaxVertices == 4

\* the vertices: three of them on one line
AreaPoints == {<<0, 0>>, <<3, 0>>, <<6, 0>>, <<0, 1>>, <<2, 2>>}

VertexLists == UNION {[1..n -> AreaPoints] : n \in 1..MaxVertices}

\* the vertices, starting k places further on
Rotated(v, k) == [i \in 1..Len(v) |-> v[((i + k - 1) % Len(v)) + 1]]

\* the vertices in the reverse direction
Reversed(v) == [i \in 1..Len(v) |-> v[Len(v) + 1 - i]]

\* the curves of the polygon through the vertices
LoopOf(as, v) == IF as = "lines" THEN Polygon(v) ELSE <<v>>

InitArea ==
    /\ elements = ElementTable
    /\ views = {}
    /\ sheets = {}
    /\ NoRun
    /\ boundary \in VertexLists
    /\ call \in [fn : {None}, form : {"lines", "tessellated"}]
    /\ ret = None

\* curve_loop_area_xy is called on the polygon from each starting vertex, in
\* the given and in the reverse direction
CallCurveLoopAreaXY ==
    /\ call.fn = None
    /\ call' = [call EXCEPT !.fn = "curve_loop_area_xy"]
    /\ ret' = [given |-> [k \in 1..Len(boundary) |->
                             curve_loop_area_xy(LoopOf(call.form, Rotated(boundary, k)))],
               reverse |-> [k \in 1..Len(boundary) |->
                             curve_loop_area_xy(LoopOf(call.form, Reversed(Rotated(boundary, k))))]]
    /\ UNCHANGED <<views, sheets, elements, boundary>>
    /\ UNCHANGED runVars

CallCentroidFromLoop ==
    /\ call.fn = None
    /\ call' = [call EXCEPT !.fn = "_centroid_from_loop"]
    /\ ret' = centroid_from_loop(LoopOf(call.form, boundary))
    /\ UNCHANGED <<views, sheets, elements, boundary>>
    /\ UNCHANGED runVars

NextArea == CallCurveLoopAreaXY \/ CallCentroidFromLoop

SpecArea == InitArea /\ [][NextArea]_vars

\* C14: for every closed polygon given as a point sequence, curve_loop_area_xy
\* returns the same value whichever vertex the sequence starts at, and the
\* negated value when the sequence is traversed in the reverse direction.
C14_AreaOfRotatedAndReversed ==
    call.fn = "curve_loop_area_xy" =>
        \A j, k \in 1..Len(boundary) :
            /\ ret.given[j] = ret.given[k]
            /\ ret.reverse[j] = 0 - ret.given[k]

\* a quadrilateral of non-zero area, given as one tessellated curve that the
\* function has to close
C14_Witness ==
    /\ call.fn = "curve_loop_area_xy"
    /\ call.form = "tessellated"
    /\ Len(boundary) = 4
    /\ boundary[1] # boundary[4]
    /\ ret.given[1] > 0
    /\ ret.reverse[2] < 0

\* all points of the loop's curves, in order
RECURSIVE AllPoints(_)
AllPoints(loop) == IF loop = <<>> THEN <<>> ELSE Head(loop) \o AllPoints(Tail(loop))

\* the number of points of the loop that differ from the point before them
DistinctConsecutive(loop) ==
    Cardinality({i \in DOMAIN AllPoints(loop) : i = 1 \/ AllPoints(loop)[i] # AllPoints(loop)[i - 1]})

\* C15: _centroid_from_loop returns None for every loop with fewer than 3
\* distinct consecutive points after coalescing and for every loop whose
\* shoelace area is zero, such as collinear points; it returns a point only
\* for loops with non-zero area.
C15_CentroidOnlyForNonZeroArea ==
    call.fn = "_centroid_from_loop" =>
        /\ DistinctConsecutive(LoopOf(call.form, boundary)) < 3 => ~ret.ok
        /\ curve_loop_area_xy(LoopOf(call.form, boundary)) = 0 => ~ret.ok
        /\ ret.ok => /\ curve_loop_area_xy(LoopOf(call.form, boundary)) # 0
                     /\ ret.den # 0

\* three distinct collinear points: enough points, zero area, no centroid
C15_Witness ==
    /\ call.fn = "_centroid_from_loop"
    /\ boundary = <<(<<0, 0>>), (<<3, 0>>), (<<6, 0>>)>>
    /\ DistinctConsecutive(LoopOf(call.form, boundary)) >= 3
    /\ ~ret.ok

(***************************************************************************)
(* Specification SpecDoor: find_entry_door_in_area is called for an area   *)
(* and a view that shows up to MaxDoors doors of the document, or          *)
(* rotate_view_to_door for a view and a door.                              *)
(***************************************************************************)

MaxDoors == 3

\* what the collector may list: doors of the document in the order of their ids
DoorLists ==
    {l \in UNION {[1..n -> DoorIds] : n \in 0..MaxDoors} :
        \A i, j \in DOMAIN l : i < j => l[i] < l[j]}

RotationKinds == {"crop element", "parameter", "read-only", "unavailable"}

InitDoor ==
    /\ elements = ElementTable
    /\ views = {}
    /\ sheets = {}
    /\ NoRun
    /\ boundary = <<>>
    /\ call \in [fn : {None}, op : {"find"}, area : AreaIds \cup {NoId}, doors : DoorLists]
                    \cup [fn : {None}, op : {"rotate"}, door : DoorIds,
                          rotation : RotationKinds, view : {RotationView(b) : b \in BOOLEAN}]
    /\ ret = None

CallFindEntryDoorInArea ==
    /\ call.fn = None
    /\ call.op = "find"
    /\ call' = [call EXCEPT !.fn = "find_entry_door_in_area"]
    /\ ret' = find_entry_door_in_area(call.area, call.doors)
    /\ UNCHANGED <<views, sheets, elements, boundary>>
    /\ UNCHANGED runVars

CallRotateViewToDoor ==
    /\ call.fn = None
    /\ call.op = "rotate"
    /\ call' = [call EXCEPT !.fn = "rotate_view_to_door"]
    /\ ret' = rotate_view_to_door(call.view, call.door, call.rotation)
    /\ UNCHANGED <<views, sheets, elements, boundary>>
    /\ UNCHANGED runVars

NextDoor == CallFindEntryDoorInArea \/ CallRotateViewToDoor

SpecDoor == InitDoor /\ [][NextDoor]_vars

\* C16: when the door's facing vector projected to the XY plane has zero
\* length, rotate_view_to_door returns failure and changes nothing on the
\* view or the document: no crop visibility change, no regeneration, no
\* rotation.
C16_ZeroFacingChangesNothing ==
    (/\ call.fn = "rotate_view_to_door"
     /\ DoorTable[call.door].facing[1] = 0
     /\ DoorTable[call.door].facing[2] = 0)
        => /\ ~ret.rotated
           /\ ret.view = call.view
           /\ ~ret.regenerated

\* a door facing straight up, and a view whose crop box is hidden: the host
\* offers a crop element, and the view is left as it was
C16_Witness ==
    /\ call.fn = "rotate_view_to_door"
    /\ DoorTable[call.door].facing = <<0, 0, 1>>
    /\ call.rotation = "crop element"
    /\ ~call.view.CropBoxVisible
    /\ ~ret.view.CropBoxVisible
    /\ ret.msg = "Door facing vector is zero."

\* the door's instance name, type name or family name contains "entry",
\* whatever the case of its letters
IsEntryDoor(door) ==
    \E name \in {DoorTable[door].Name, DoorTable[door].TypeName, DoorTable[door].FamilyName} :
        \E i \in DOMAIN name :
            /\ i + 4 <= Len(name)
            /\ lower(name)[i] = "e"
            /\ lower(name)[i + 1] = "n"
            /\ lower(name)[i + 2] = "t"
            /\ lower(name)[i + 3] = "r"
            /\ lower(name)[i + 4] = "y"

\* the entry doors the view shows
EntryDoors == {d \in Range(call.doors) : IsEntryDoor(d)}

\* C17: find_entry_door_in_area only ever returns a door that is visible in
\* the given view and whose instance name, type name or family name contains
\* "entry" (case-insensitive); it returns no door when the view has no such
\* door.
C17_ReturnsVisibleEntryDoor ==
    call.fn = "find_entry_door_in_area" =>
        /\ ret # NoId => ret \in EntryDoors
        /\ EntryDoors = {} => ret = NoId

\* the view shows a door of another name inside the area, with a lower id,
\* and a door whose type name is ENTRY in capitals; the latter is returned
C17_Witness ==
    /\ call.fn = "find_entry_door_in_area"
    /\ call.area = 1
    /\ call.doors = <<40, 42>>
    /\ ret = 42

\* the entry doors of the view with a sample point inside the area
EntryDoorsInside ==
    {d \in EntryDoors :
        \E i \in DOMAIN door_points_for_check(d) :
            door_points_for_check(d)[i] \in AreaTable[call.area].inside}

\* door d is at least as close to the area's centroid as door e (a door
\* without location point is further away than any door with one)
AsCloseAs(d, e) ==
    ~KeyLess(DistanceKey(e, area_centroid(call.area)), DistanceKey(d, area_centroid(call.area)))

\* C18 as stated: the nearest-door search is used only when no entry door has
\* a sample point inside the area; then, whenever the view has an entry door,
\* the entry door whose location point is closest to the area's centroid is
\* returned; when some entry door has a sample point inside the area, the one
\* of those with the lowest element id is returned.
C18_InsideElseNearest ==
    (call.fn = "find_entry_door_in_area" /\ call.area # NoId) =>
        /\ EntryDoorsInside # {} =>
               /\ ret \in EntryDoorsInside
               /\ \A e \in EntryDoorsInside : ret <= e
        /\ (EntryDoorsInside = {} /\ EntryDoors # {}) =>
               /\ area_centroid(call.area).ok
               /\ ret \in EntryDoors
               /\ \A e \in EntryDoors : AsCloseAs(ret, e)

\* C18 amended: as C18, with the nearest-door search returning the closest
\* entry door only when the area has a centroid (an outer boundary loop of
\* non-zero area), and no door otherwise.
C18_InsideElseNearestOfCentroid ==
    (call.fn = "find_entry_door_in_area" /\ call.area # NoId) =>
        /\ EntryDoorsInside # {} =>
               /\ ret \in EntryDoorsInside
               /\ \A e \in EntryDoorsInside : ret <= e
        /\ (EntryDoorsInside = {} /\ EntryDoors # {} /\ area_centroid(call.area).ok) =>
               /\ ret \in EntryDoors
               /\ \A e \in EntryDoors : AsCloseAs(ret, e)
        /\ (EntryDoorsInside = {} /\ ~area_centroid(call.area).ok) => ret = NoId

\* no entry door is inside the area, two are at different distances from its
\* centroid, and the closer one, which has the higher id, is returned
C18_Witness ==
    /\ call.fn = "find_entry_door_in_area"
    /\ call.area = 1
    /\ call.doors = <<42, 43, 46>>
    /\ EntryDoorsInside = {}
    /\ ~AsCloseAs(42, 43)
    /\ ret = 43

(***************************************************************************)
(* Specification SpecPick: pick_elements (KP 32-55, MU 67-90) is called    *)
(* for areas or for doors on an active view that is or is not in the       *)
(* temporary isolate mode already.  Each host call of the function is one  *)
(* step; the host may raise on each of them.                               *)
(***************************************************************************)

\* the number of elements the user picks at most
MaxRefs == 2

\* the elements the user can pick in the view
RefPool == {1, 3, 41}

\* elem.Category of a picked element
CategoryOf(id) == IF id \in AreaIds THEN "OST_Areas" ELSE "OST_Doors"

\* what uidoc.Selection.PickObjects does: it returns the references picked
\* (none when the user finishes at once) or raises
PickOutcomes ==
    {[raised |-> None, refs |-> p] :
        p \in {q \in UNION {[1..n -> RefPool] : n \in 0..MaxRefs} :
                  \A i, j \in DOMAIN q : i # j => q[i] # q[j]}}
        \cup {[raised |-> e, refs |-> <<>>] : e \in {"OperationCanceledException", "Exception"}}

\* the active view with its temporary hide/isolate mode on or off
ActiveView(isolated) == [Id |-> BaseViewId, Name |-> BaseViewName, TemporaryIsolate |-> isolated]

ActiveViewIsolated == \E v \in views : v.Id = BaseViewId /\ v.TemporaryIsolate

\* the elements of the wanted category among those picked, in order
PickedOfCategory(refs, bic) == SelectSeq(refs, LAMBDA id : CategoryOf(id) = bic)

\* a finally clause that leaves the mode as it is
ModeAfterFinally_Kept(isolate_active, isolated, raises) == isolated

\* the `finally` clause: DisableTemporaryViewMode is called when
\* isolate_active is set, and an exception of that call is swallowed
ModeAfterFinally(isolate_active, isolated, raises) ==
    IF isolate_active /\ ~raises THEN FALSE ELSE isolated

InitPick ==
    /\ elements = ElementTable
    /\ views \in {{ActiveView(b)} : b \in BOOLEAN}
    /\ sheets = {}
    /\ NoRun
    /\ boundary = <<>>
    /\ call \in [fn : {None}, bic : {"OST_Areas", "OST_Doors"}]
    /\ ret = None

\* pick_elements up to the try block: the category is isolated when areas
\* are to be picked, unless the host raises
PickIsolate ==
    /\ call.fn = None
    /\ \E raises \in BOOLEAN :
           /\ raises => call.bic = "OST_Areas"
           /\ call' = [fn |-> "pick_elements", bic |-> call.bic, at |-> "try",
                       isolate_active |-> (call.bic = "OST_Areas" /\ ~raises),
                       disable_raised |-> FALSE,
                       refs |-> <<>>,
                       outcome |-> [raised |-> None, elems |-> <<>>]]
           /\ views' = IF call.bic = "OST_Areas" /\ ~raises
                       THEN {ActiveView(TRUE)}
                       ELSE views
    /\ UNCHANGED <<sheets, elements, boundary, ret>>
    /\ UNCHANGED runVars

\* the try block: PickObjects returns or raises, the picked elements of the
\* category are collected
PickObjects ==
    /\ call.fn = "pick_elements"
    /\ call.at = "try"
    /\ \E o \in PickOutcomes :
           call' = [call EXCEPT
                       !.at = "finally",
                       !.refs = o.refs,
                       !.outcome = [raised |-> o.raised,
                                    elems |-> PickedOfCategory(o.refs, call.bic)]]
    /\ UNCHANGED <<views, sheets, elements, boundary, ret>>
    /\ UNCHANGED runVars

\* the finally clause, and then the return or the exception of the try block
PickFinally ==
    /\ call.fn = "pick_elements"
    /\ call.at = "finally"
    /\ \E raises \in BOOLEAN :
           /\ raises => call.isolate_active
           /\ views' = {ActiveView(ModeAfterFinally(call.isolate_active,
                                                    ActiveViewIsolated, raises))}
           /\ call' = [call EXCEPT !.at = "left", !.disable_raised = raises]
    /\ ret' = call.outcome
    /\ UNCHANGED <<sheets, elements, boundary>>
    /\ UNCHANGED runVars

NextPick == PickIsolate \/ PickObjects \/ PickFinally

SpecPick == InitPick /\ [][NextPick]_vars

\* pick_elements has returned or raised
PickLeft == call.fn = "pick_elements" /\ call.at = "left"

====
